---------------------------- MODULE Spec2Model ----------------------------
(***************************************************************************)
(* Bitcoin transaction scanner: the RPC client's retry loop, the address   *)
(* detector and the block monitor's poll loop.                             *)
(*                                                                         *)
(* Six specifications share the variables below:                           *)
(*   SpecRpc     BitcoinRPCClient.callRPC, one or more calls in flight     *)
(*   SpecDetect  AddressDetector.detectAddressesInTransaction on bounded   *)
(*               transactions, and the notification built from its result  *)
(*   SpecLookup  one detection with an RPC client, lookup by lookup, while *)
(*               the watch-list may be replaced                            *)
(*   SpecParse   BlockParser's and AddressDetector's pure functions on     *)
(*               bounded inputs                                            *)
(*   SpecNotify  NotificationService.sendTransactionNotification with the  *)
(*               cached BTC/USD price and its refreshes                    *)
(*   Spec        BlockMonitor start / poll loop / stop against a node      *)
(***************************************************************************)
EXTENDS Integers, Sequences, FiniteSets, TLC

VARIABLES
    \* ---- BitcoinRPCClient
    requestId,           \* BitcoinRPCClient.requestId
    calls,               \* the callRPC invocations, by slot
    \* ---- AddressDetector (one detection)
    watchedAddresses,    \* AddressDetector.watchedAddresses
    addressNames,        \* AddressDetector.addressNames
    dTx,                 \* the transaction handed to detect
    dRun,                \* the detector's environment and result, or NoRun
    detection,           \* a detection in flight: its position and its lookups
    \* ---- BlockParser / pure functions
    parse,               \* one function application: its input and its result
    \* ---- NotificationService (currency conversion)
    usdPriceEnabled,     \* NotificationService.usdPriceEnabled
    btcPriceUSD,         \* NotificationService.btcPriceUSD (0: no price yet)
    lastPriceUpdate,     \* NotificationService.lastPriceUpdate
    now,                 \* Date.now()
    fetching,            \* the updateBTCPrice calls awaiting the price service
    pendingNotification, \* the notification sendTransactionNotification holds
    logged,              \* the transaction records written, in order
    \* ---- BlockMonitor
    isRunning,           \* BlockMonitor.isRunning
    lastProcessedBlock,  \* BlockMonitor.lastProcessedBlock (the watermark)
    timerPending,        \* BlockMonitor.pollingTimer is armed and has not fired
    startPc,             \* position of start(): "new", "ping", "info", "done", "failed"
    stopped,             \* stop() has been called
    exited,              \* process.exit() has been called
    startCalls,          \* the start() calls made when start() may be called again
    strayTimers,         \* armed timers whose handle pollingTimer no longer holds
    active,              \* the poll cycles in flight, each with its locals
    chainHeight,         \* node: current chain height
    chain,               \* node: height -> block (sequence of transactions)
    sink,                \* everything handed to the notification service, in order
    startHeight,         \* observation: the height start() read
    requested,           \* observation: heights whose hash was requested, in order
    lastCycle,           \* observation: how the last finished cycle ended
    retryHeight,         \* observation: height of the last failed block attempt
    failures             \* number of failures met so far

rpcVars == <<requestId, calls>>
detectVars == <<watchedAddresses, addressNames, dTx, dRun, detection>>
parseVars == <<parse>>
notifyVars == <<usdPriceEnabled, btcPriceUSD, lastPriceUpdate, now, fetching,
                pendingNotification, logged>>
monitorVars == <<isRunning, lastProcessedBlock, timerPending, startPc, stopped,
                 exited, startCalls, strayTimers, active, chainHeight, chain, sink, startHeight,
                 requested, lastCycle, retryHeight, failures>>
vars == <<requestId, calls, watchedAddresses, addressNames, dTx, dRun, detection,
          parse, usdPriceEnabled, btcPriceUSD, lastPriceUpdate, now, fetching,
          pendingNotification, logged, isRunning, lastProcessedBlock, timerPending, startPc, stopped,
          exited, startCalls, strayTimers, active, chainHeight, chain, sink, startHeight,
          requested, lastCycle, retryHeight, failures>>

(***************************************************************************)
(* Small helpers                                                           *)
(***************************************************************************)
RECURSIVE Pow2(_)
Pow2(n) == IF n = 0 THEN 1 ELSE 2 * Pow2(n - 1)

RECURSIVE SeqsUpTo(_, _)
SeqsUpTo(S, n) ==
    IF n = 0 THEN { <<>> }
    ELSE LET shorter == SeqsUpTo(S, n - 1)
         IN  shorter \cup { Append(s, x) : s \in { t \in shorter : Len(t) = n - 1 }, x \in S }

RECURSIVE Flatten(_)
Flatten(ss) == IF ss = <<>> THEN <<>> ELSE Head(ss) \o Flatten(Tail(ss))

Range(s) == { s[i] : i \in 1..Len(s) }

(***************************************************************************)
(* Values the variables of the other components keep while one component   *)
(* is under study                                                          *)
(***************************************************************************)
NoTx == [vin |-> <<>>, vout |-> <<>>]
NoRun == [ran |-> FALSE]
NoDetection == [pc |-> "idle", path |-> "none", chunk |-> 0, status |-> <<>>,
                involvements |-> <<>>, swaps |-> 0, during |-> 0]
NoParse == [fn |-> "none"]
NoNames == [a \in {} |-> ""]

NoCycleYet == [ended |-> FALSE, failedAt |-> 0, endWatermark |-> 0]

MonitorParked ==
    /\ isRunning = FALSE /\ lastProcessedBlock = 0 /\ timerPending = FALSE
    /\ startPc = "new" /\ stopped = FALSE /\ exited = FALSE /\ active = <<>>
    /\ startCalls = <<>> /\ strayTimers = 0
    /\ chainHeight = 0 /\ chain = <<>> /\ sink = <<>> /\ startHeight = 0
    /\ requested = <<>> /\ lastCycle = NoCycleYet /\ retryHeight = 0
    /\ failures = 0

DetectParked ==
    /\ watchedAddresses = {} /\ addressNames = NoNames
    /\ dTx = NoTx /\ dRun = NoRun /\ detection = NoDetection

ParseParked == parse = NoParse

NoNotification == [held |-> FALSE, totalBTC |-> 0]

NotifyParked ==
    /\ usdPriceEnabled = FALSE /\ btcPriceUSD = 0 /\ lastPriceUpdate = 0 /\ now = 0
    /\ fetching = {} /\ pendingNotification = NoNotification /\ logged = <<>>

(***************************************************************************)
(* BitcoinRPCClient.callRPC                                                *)
(***************************************************************************)
\* Default of the `retries` parameter; no caller passes another value.
Retries == 3

\* Number of callRPC invocations the client makes in one behaviour.
MaxCalls == 2

CallSlots == 1..MaxCalls

\* What one HTTP POST can come back with: a response carrying a result, a
\* response carrying an error object, or a rejected request (network, timeout).
Responses == {"result", "rpcError", "transportError"}

IdleCall == [pc |-> "idle", id |-> <<>>, attempt |-> 0, posts |-> <<>>,
             responses |-> <<>>, waits |-> <<>>, outcome |-> [kind |-> "none", attempt |-> 0]]

\* const isLastAttempt = attempt === retries
IsLastAttemptOneMore(attempt) == attempt = Retries + 1
IsLastAttempt(attempt) == attempt = Retries

\* const delay = Math.pow(2, attempt) * 1000
BackoffDelayFromOne(attempt) == Pow2(attempt - 1) * 1000
BackoffDelay(attempt) == Pow2(attempt) * 1000

\* Number.prototype.toString(): the decimal digits of a non-negative integer.
Digits == <<"0", "1", "2", "3", "4", "5", "6", "7", "8", "9">>

RECURSIVE NumberToString(_)
NumberToString(n) ==
    IF n < 10 THEN <<Digits[n + 1]>>
    ELSE Append(NumberToString(n \div 10), Digits[(n % 10) + 1])

\* (++this.requestId): the value of the expression is the incremented counter.
PostIncrement(counter) == counter
PreIncrement(counter) == counter + 1

\* Entry of callRPC up to the first `await this.client.post`.
CallRPC(c) ==
    /\ calls[c].pc = "idle"
    /\ requestId' = requestId + 1
    /\ LET id == NumberToString(PreIncrement(requestId))
       IN  calls' = [calls EXCEPT ![c] =
                      [IdleCall EXCEPT !.pc = "posted", !.id = id,
                                       !.attempt = 1, !.posts = <<id>>]]
    /\ UNCHANGED detectVars
    /\ UNCHANGED parseVars
    /\ UNCHANGED monitorVars
    /\ UNCHANGED notifyVars

\* The awaited POST settles.  A response with `data.error` throws inside the
\* try block, so it lands in the same catch as a rejected request.
PostSettles(c, r) ==
    /\ calls[c].pc = "posted"
    /\ LET call == calls[c]
           seen == [call EXCEPT !.responses = Append(call.responses, r)]
       IN  calls' = [calls EXCEPT ![c] =
              IF r = "result"
              THEN [seen EXCEPT !.pc = "resolved",
                                !.outcome = [kind |-> "result", attempt |-> call.attempt]]
              ELSE IF IsLastAttempt(call.attempt)
                   THEN [seen EXCEPT !.pc = "rejected",
                                     !.outcome = [kind |-> r, attempt |-> call.attempt]]
                   ELSE [seen EXCEPT !.pc = "backoff",
                                     !.waits = Append(call.waits, BackoffDelay(call.attempt))]]
    /\ UNCHANGED requestId
    /\ UNCHANGED detectVars
    /\ UNCHANGED parseVars
    /\ UNCHANGED monitorVars
    /\ UNCHANGED notifyVars

\* The backoff timer fires: next iteration of the for loop, same payload.
BackoffElapsed(c) ==
    /\ calls[c].pc = "backoff"
    /\ calls' = [calls EXCEPT ![c] =
                   [@ EXCEPT !.pc = "posted", !.attempt = @ + 1,
                             !.posts = Append(@, calls[c].id)]]
    /\ UNCHANGED requestId
    /\ UNCHANGED detectVars
    /\ UNCHANGED parseVars
    /\ UNCHANGED monitorVars
    /\ UNCHANGED notifyVars

RpcInit ==
    /\ requestId = 0
    /\ calls = [c \in CallSlots |-> IdleCall]
    /\ DetectParked
    /\ ParseParked
    /\ MonitorParked
    /\ NotifyParked

RpcNext ==
    \/ \E c \in CallSlots : CallRPC(c)
    \/ \E c \in CallSlots, r \in Responses : PostSettles(c, r)
    \/ \E c \in CallSlots : BackoffElapsed(c)

\* Every POST settles (the HTTP client has a 30 s timeout) and every backoff
\* timer fires.
RpcFairness ==
    \A c \in CallSlots :
        /\ WF_vars(\E r \in Responses : PostSettles(c, r))
        /\ WF_vars(BackoffElapsed(c))

SpecRpc == RpcInit /\ [][RpcNext]_vars /\ RpcFairness

CallDone(c) == calls[c].pc \in {"resolved", "rejected"}

\* C7: a response carrying an error object ends the call at once: after an
\* rpcError as the k-th response the call is rejected with k requests sent and
\* no backoff wait following that response.
C7_NodeErrorNotRetried ==
    \A c \in CallSlots : \A k \in 1..Len(calls[c].responses) :
        calls[c].responses[k] = "rpcError" =>
            /\ calls[c].pc = "rejected"
            /\ Len(calls[c].posts) = k
            /\ Len(calls[c].waits) = k - 1

\* C8 (safety part): never more than 3 requests; a resolved call stopped at its
\* first successful response; a rejected call made exactly 3 attempts, none
\* successful, and carries the error of the third.
C8_Bounded ==
    \A c \in CallSlots :
        LET call == calls[c] IN
        /\ Len(call.posts) <= 3
        /\ Len(call.responses) <= Len(call.posts)
        /\ call.pc = "resolved" =>
              /\ Len(call.responses) = Len(call.posts)
              /\ call.responses[Len(call.responses)] = "result"
              /\ \A k \in 1..(Len(call.responses) - 1) : call.responses[k] # "result"
              /\ call.outcome = [kind |-> "result", attempt |-> Len(call.posts)]
        /\ call.pc = "rejected" =>
              /\ Len(call.posts) = 3
              /\ Len(call.responses) = 3
              /\ \A k \in 1..3 : call.responses[k] # "result"
              /\ call.outcome = [kind |-> call.responses[3], attempt |-> 3]

\* C8: call() makes at most 3 attempts, returns the first success or fails with
\* the third attempt's error, and every call that was begun ends.
C8_AtMostThreeAttemptsAndTerminates ==
    /\ []C8_Bounded
    /\ \A c \in CallSlots : (calls[c].pc # "idle") ~> CallDone(c)

\* A call rejected after three transport failures.
C8_Witness ==
    \E c \in CallSlots :
        /\ calls[c].pc = "rejected"
        /\ calls[c].responses = <<"transportError", "transportError", "transportError">>

Issued == { c \in CallSlots : calls[c].pc # "idle" }

C26_Ids ==
    /\ requestId = Cardinality(Issued)
    /\ { calls[c].id : c \in Issued } = { NumberToString(k) : k \in 1..requestId }
    /\ \A c, e \in Issued : c # e => calls[c].id # calls[e].id
    /\ \A c \in Issued : \A k \in 1..Len(calls[c].posts) : calls[c].posts[k] = calls[c].id
    /\ \A c \in Issued, e \in Issued : \A j \in 1..Len(calls[c].posts) :
          c # e => calls[c].posts[j] # calls[e].id

\* C26: the k-th call issued by the client carries the decimal string of k as
\* its id, every request of a call (first attempt and retries) carries that
\* call's id, and no two calls carry the same id.
C26_CorrelationIds ==
    /\ []C26_Ids
    /\ [][\A c \in CallSlots :
            (calls[c].pc = "idle" /\ calls'[c].pc # "idle") =>
                /\ calls'[c].id = NumberToString(Cardinality(Issued) + 1)
                /\ calls'[c].posts = <<calls'[c].id>>]_vars

\* Two calls interleaved: the first call was retried after the second call
\* had been issued.
C26_Witness ==
    \E c, e \in CallSlots :
        /\ calls[c].id = <<"1">> /\ calls[e].id = <<"2">>
        /\ Len(calls[c].posts) = 3 /\ Len(calls[e].posts) = 2
        /\ calls[c].pc = "posted" /\ calls[e].pc = "posted"

\* C27: the wait after the first failed attempt is 2 s, after the second 4 s;
\* a call waits once after each failed attempt but the third, after which it
\* is rejected without a wait.
C27_ExponentialBackoff ==
    \A c \in CallSlots :
        LET call == calls[c] IN
        /\ Len(call.waits) <= 2
        /\ Len(call.waits) >= 1 => call.waits[1] = 2000
        /\ Len(call.waits) >= 2 => call.waits[2] = 4000
        /\ call.pc = "backoff" =>
              /\ Len(call.waits) = call.attempt
              /\ Len(call.responses) = call.attempt
        /\ call.pc = "posted" => Len(call.waits) = call.attempt - 1
        /\ call.pc = "rejected" =>
              /\ Len(call.responses) = 3
              /\ Len(call.waits) = 2

\* A call rejected after three failed attempts, which waited 2 s and then 4 s.
C27_Witness ==
    \E c \in CallSlots :
        /\ calls[c].pc = "rejected"
        /\ calls[c].waits = <<2000, 4000>>
        /\ Len(calls[c].responses) = 3

(***************************************************************************)
(* Transactions                                                            *)
(*                                                                         *)
(* An output carries the address list that extractAddressesFromOutput      *)
(* derives from it (none, one or several) and its value.  An input carries *)
(* the prior output it spends (its addresses and value, what               *)
(* getRawTransaction would return), whether the node supplied              *)
(* `input.addresses` with the block, and the coinbase marker.              *)
(***************************************************************************)
Addresses == {"addrA", "addrB", "addrX"}

\* The watch-list the monitor is configured with.
ConfiguredWatchList == {"addrA", "addrB"}

\* watchedAddresses[addr.address] = addr.name || addr.address
ConfiguredLabels == [a \in ConfiguredWatchList |-> IF a = "addrA" THEN "wallet A" ELSE a]

MaxOutputs == 2
MaxAddrsPerOutput == 2
MaxInputs == 1
MaxValue == 2

Values == 1..MaxValue

OutputSpace == [addresses : SeqsUpTo(Addresses, MaxAddrsPerOutput), value : Values]

InputSpace ==
    [prevAddresses : { <<a>> : a \in Addresses }, prevValue : Values,
     supplied : BOOLEAN, coinbase : {FALSE}]
    \cup { [prevAddresses |-> <<>>, prevValue |-> 0, supplied |-> FALSE, coinbase |-> TRUE] }

TxSpace == [vin : SeqsUpTo(InputSpace, MaxInputs), vout : SeqsUpTo(OutputSpace, MaxOutputs)]

\* input.addresses as the node delivered it.
InputAddresses(input) == IF input.supplied THEN input.prevAddresses ELSE <<>>

(***************************************************************************)
(* BlockParser.extractAddressesFromTransaction                             *)
(***************************************************************************)
ExtractAddressesFromTransaction(tx) ==
    [inputs  |-> Flatten([i \in 1..Len(tx.vin) |-> InputAddresses(tx.vin[i])]),
     outputs |-> Flatten([i \in 1..Len(tx.vout) |-> tx.vout[i].addresses])]

(***************************************************************************)
(* AddressDetector                                                         *)
(***************************************************************************)
\* this.watchedAddresses.has(address)
IsWatchedAlways(watched, address) == TRUE
IsWatched(watched, address) == address \in watched

Involvement(address, direction, amount) ==
    [address |-> address, direction |-> direction, amount |-> amount]

\* processAddresses(outputs, transaction.vout, "output", ...): the k-th address
\* of the flattened list takes its amount from transactionParts[k]; reading
\* `.value` of a missing part throws a TypeError, which rejects the detection.
RECURSIVE ProcessOutputAddresses(_, _, _, _)
ProcessOutputAddresses(watched, addresses, vout, k) ==
    IF k > Len(addresses) THEN [raised |-> FALSE, involvements |-> <<>>]
    ELSE LET rest == ProcessOutputAddresses(watched, addresses, vout, k + 1)
         IN  IF ~IsWatched(watched, addresses[k]) THEN rest
             ELSE IF k > Len(vout) THEN [raised |-> TRUE, involvements |-> <<>>]
             ELSE IF rest.raised THEN rest
             ELSE [raised |-> FALSE,
                   involvements |-> <<Involvement(addresses[k], "output", vout[k].value)>>
                                       \o rest.involvements]

\* extractInputAmountFromTransactionPart(transactionParts[k]); every failure,
\* a missing part included, is caught inside and yields 0.
ExtractInputAmount(hasRpc, lookupFails, vin, k) ==
    IF ~hasRpc THEN 0
    ELSE IF k > Len(vin) THEN 0
    ELSE IF k \in lookupFails \/ vin[k].coinbase THEN 0
    ELSE vin[k].prevValue

\* processAddresses(inputs, transaction.vin, "input", ...) on a non-empty
\* address list, or without an RPC client.
RECURSIVE ProcessInputAddresses(_, _, _, _, _, _)
ProcessInputAddresses(watched, hasRpc, lookupFails, addresses, vin, k) ==
    IF k > Len(addresses) THEN <<>>
    ELSE LET rest == ProcessInputAddresses(watched, hasRpc, lookupFails, addresses, vin, k + 1)
         IN  IF IsWatched(watched, addresses[k])
             THEN <<Involvement(addresses[k], "input",
                                ExtractInputAmount(hasRpc, lookupFails, vin, k))>> \o rest
             ELSE rest

\* One prior output's addresses tested against the watch-list.
RECURSIVE PrevOutputInvolvements(_, _, _, _)
PrevOutputInvolvements(watched, addresses, value, k) ==
    IF k > Len(addresses) THEN <<>>
    ELSE LET rest == PrevOutputInvolvements(watched, addresses, value, k + 1)
         IN  IF IsWatched(watched, addresses[k])
             THEN <<Involvement(addresses[k], "input", value)>> \o rest
             ELSE rest

\* processInputsViaRPC: coinbase inputs are skipped, a failed lookup is caught
\* and leaves the input unresolved.
RECURSIVE ProcessInputsViaRPC(_, _, _, _)
ProcessInputsViaRPC(watched, lookupFails, vin, k) ==
    IF k > Len(vin) THEN <<>>
    ELSE LET rest == ProcessInputsViaRPC(watched, lookupFails, vin, k + 1)
         IN  IF vin[k].coinbase \/ k \in lookupFails THEN rest
             ELSE PrevOutputInvolvements(watched, vin[k].prevAddresses, vin[k].prevValue, 1)
                    \o rest

ProcessInputs(watched, hasRpc, lookupFails, addresses, vin) ==
    IF Len(addresses) = 0 /\ hasRpc
    THEN ProcessInputsViaRPC(watched, lookupFails, vin, 1)
    ELSE ProcessInputAddresses(watched, hasRpc, lookupFails, addresses, vin, 1)

DetermineTransactionType(addressInvolvements) ==
    IF Len(addressInvolvements) = 0 THEN "none"
    ELSE LET hasInputs  == \E i \in 1..Len(addressInvolvements) :
                              addressInvolvements[i].direction = "input"
             hasOutputs == \E i \in 1..Len(addressInvolvements) :
                              addressInvolvements[i].direction = "output"
         IN  IF hasInputs /\ hasOutputs THEN "both"
             ELSE IF hasInputs THEN "outgoing"
             ELSE IF hasOutputs THEN "incoming"
             ELSE "none"

DetectionResult(raised, involvements) ==
    [raised |-> raised,
     hasWatchedAddress |-> Len(involvements) > 0,
     addressInvolvements |-> involvements,
     transactionType |-> DetermineTransactionType(involvements)]

\* detectAddressesInTransaction: outputs first, inputs only if an output matched.
DetectAddressesInTransaction(watched, hasRpc, lookupFails, tx) ==
    LET extracted == ExtractAddressesFromTransaction(tx)
        outs == ProcessOutputAddresses(watched, extracted.outputs, tx.vout, 1)
    IN  IF outs.raised THEN DetectionResult(TRUE, <<>>)
        ELSE IF Len(outs.involvements) > 0
             THEN DetectionResult(FALSE,
                     outs.involvements
                       \o ProcessInputs(watched, hasRpc, lookupFails, extracted.inputs, tx.vin))
             ELSE DetectionResult(FALSE, outs.involvements)

\* calculateTotalBTC: reduce over the involvements, starting from 0.
RECURSIVE CalculateTotalBTCNet(_)
CalculateTotalBTCNet(addressInvolvements) ==
    IF addressInvolvements = <<>> THEN 0
    ELSE (IF Head(addressInvolvements).direction = "output"
          THEN Head(addressInvolvements).amount
          ELSE 0 - Head(addressInvolvements).amount)
         + CalculateTotalBTCNet(Tail(addressInvolvements))
RECURSIVE CalculateTotalBTC(_)
CalculateTotalBTC(addressInvolvements) ==
    IF addressInvolvements = <<>> THEN 0
    ELSE Head(addressInvolvements).amount + CalculateTotalBTC(Tail(addressInvolvements))

\* calculateBalanceDifference: totalIncoming - totalOutgoing.
RECURSIVE DirectionTotal(_, _)
DirectionTotal(addressInvolvements, direction) ==
    IF addressInvolvements = <<>> THEN 0
    ELSE (IF Head(addressInvolvements).direction = direction
          THEN Head(addressInvolvements).amount ELSE 0)
         + DirectionTotal(Tail(addressInvolvements), direction)

CalculateBalanceDifference(addressInvolvements) ==
    DirectionTotal(addressInvolvements, "output") - DirectionTotal(addressInvolvements, "input")

\* An optional number of a notification: `undefined`, or a value.
Undefined == [defined |-> FALSE, value |-> 0]
Defined(v) == [defined |-> TRUE, value |-> v]

\* BlockMonitor.createTransactionNotification, the fields computed from the
\* detection result.
CreateTransactionNotification(detectionResult) ==
    [type |-> detectionResult.transactionType,
     addresses |-> detectionResult.addressInvolvements,
     totalBTC |-> CalculateTotalBTC(detectionResult.addressInvolvements),
     balanceDifference |->
        IF detectionResult.transactionType = "both"
        THEN Defined(CalculateBalanceDifference(detectionResult.addressInvolvements))
        ELSE Undefined]

(***************************************************************************)
(* One detection on an arbitrary bounded transaction                       *)
(***************************************************************************)
DetectInit ==
    /\ watchedAddresses = ConfiguredWatchList
    /\ addressNames = ConfiguredLabels
    /\ dTx \in TxSpace
    /\ dRun = NoRun
    /\ detection = NoDetection
    /\ requestId = 0
    /\ calls = <<>>
    /\ ParseParked
    /\ MonitorParked
    /\ NotifyParked

\* A caller invokes detect on the transaction, with or without an RPC client
\* wired in; the node fails any subset of the prior-transaction lookups.  The
\* notification is what createTransactionNotification builds from the result.
Detect ==
    /\ ~dRun.ran
    /\ \E hasRpc \in BOOLEAN, lookupFails \in SUBSET (1..Len(dTx.vin)) :
          LET result == DetectAddressesInTransaction(watchedAddresses, hasRpc,
                                                     lookupFails, dTx)
          IN  dRun' = [ran |-> TRUE, hasRpc |-> hasRpc, lookupFails |-> lookupFails,
                       result |-> result,
                       notification |-> CreateTransactionNotification(result)]
    /\ UNCHANGED <<watchedAddresses, addressNames, dTx, detection>>
    /\ UNCHANGED rpcVars
    /\ UNCHANGED parseVars
    /\ UNCHANGED monitorVars
    /\ UNCHANGED notifyVars

DetectNext == Detect

SpecDetect == DetectInit /\ [][DetectNext]_vars

\* Ground truth about a transaction.
WatchedAmongOutputs(watched, tx) ==
    \E i \in 1..Len(tx.vout) : \E j \in 1..Len(tx.vout[i].addresses) :
        tx.vout[i].addresses[j] \in watched

WatchedAmongInputs(watched, tx) ==
    \E i \in 1..Len(tx.vin) : \E j \in 1..Len(tx.vin[i].prevAddresses) :
        tx.vin[i].prevAddresses[j] \in watched

\* C9: a transaction none of whose inputs and outputs carries a watched address
\* is reported as no match: matched = false, no involvement, type "none".
C9_NoWatchedAddressGivesNone ==
    (dRun.ran /\ ~WatchedAmongOutputs(watchedAddresses, dTx)
              /\ ~WatchedAmongInputs(watchedAddresses, dTx)) =>
        /\ ~dRun.result.raised
        /\ dRun.result.hasWatchedAddress = FALSE
        /\ dRun.result.addressInvolvements = <<>>
        /\ dRun.result.transactionType = "none"

\* A detection has run on a transaction that has inputs and outputs, all of
\* them unwatched.
C9_Witness ==
    /\ dRun.ran
    /\ Len(dTx.vout) > 0 /\ Len(dTx.vin) > 0
    /\ \E i \in 1..Len(dTx.vout) : Len(dTx.vout[i].addresses) > 0
    /\ \E i \in 1..Len(dTx.vin) : Len(dTx.vin[i].prevAddresses) > 0 /\ dTx.vin[i].supplied
    /\ ~WatchedAmongOutputs(watchedAddresses, dTx)
    /\ ~WatchedAmongInputs(watchedAddresses, dTx)
    /\ dRun.result.transactionType = "none"

ExpectedTransactionType(watched, tx) ==
    IF WatchedAmongInputs(watched, tx) /\ WatchedAmongOutputs(watched, tx) THEN "both"
    ELSE IF WatchedAmongInputs(watched, tx) THEN "outgoing"
    ELSE IF WatchedAmongOutputs(watched, tx) THEN "incoming"
    ELSE "none"

\* C10: with an RPC client wired in and every lookup answered, the type detect
\* returns is "both", "outgoing", "incoming" according to the sides on which
\* watched addresses appear.
C10_TypeFollowsSides ==
    (dRun.ran /\ dRun.hasRpc /\ dRun.lookupFails = {} /\ ~dRun.result.raised) =>
        dRun.result.transactionType = ExpectedTransactionType(watchedAddresses, dTx)

\* C12: the notification's totalBTC is the sum of the amounts of its input
\* involvements plus the sum of the amounts of its output involvements.
C12_TotalIsSumOfAllInvolvements ==
    (dRun.ran /\ ~dRun.result.raised) =>
        LET addresses == dRun.notification.addresses
            inputs  == SelectSeq(addresses, LAMBDA inv : inv.direction = "input")
            outputs == SelectSeq(addresses, LAMBDA inv : inv.direction = "output")
        IN  /\ addresses = dRun.result.addressInvolvements
            /\ dRun.notification.totalBTC =
                   DirectionTotal(inputs, "input") + DirectionTotal(outputs, "output")

\* A notification with involvements on both sides, the input side with a
\* resolved amount.
C12_Witness ==
    /\ dRun.ran /\ ~dRun.result.raised
    /\ dRun.notification.type = "both"
    /\ \E i \in 1..Len(dRun.notification.addresses) :
          /\ dRun.notification.addresses[i].direction = "input"
          /\ dRun.notification.addresses[i].amount > 0
    /\ dRun.notification.totalBTC >= 2

\* The watched addresses of one output, each with that output's value.
WatchedOutputInvolvements(watched, output) ==
    LET found == SelectSeq(output.addresses, LAMBDA a : a \in watched)
    IN  [j \in 1..Len(found) |-> Involvement(found[j], "output", output.value)]

\* C28: detect() does not fail on a transaction, and its "output" involvements
\* are, output by output, one per watched address of the output, each with the
\* value of that same output.
C28_OutputInvolvementCarriesItsOutputsValue ==
    dRun.ran =>
        /\ ~dRun.result.raised
        /\ SelectSeq(dRun.result.addressInvolvements, LAMBDA inv : inv.direction = "output")
              = Flatten([i \in 1..Len(dTx.vout) |->
                            WatchedOutputInvolvements(watchedAddresses, dTx.vout[i])])

(***************************************************************************)
(* One detection with an RPC client wired in, lookup by lookup.            *)
(*                                                                         *)
(* detection.status[i] is the position of the i-th input's lookup:         *)
(* "waiting" (its chunk has not begun), "delay" (the 50 ms pause before    *)
(* the request), "inflight" (getRawTransaction awaited), "backoff" (the    *)
(* 1 s pause after a rate-limit answer), "done", "failed", "skipped".      *)
(* updateWatchedAddresses may run between any two steps.                   *)
(***************************************************************************)
\* const MAX_CONCURRENT_REQUESTS = 5
MaxConcurrentRequests == 5

MaxLookupInputs == 6
MaxUpdates == 1
MaxUnmatchedInputs == 2

\* The list updateWatchedAddresses is called with.
ReplacementLabels ==
    [a \in {"addrA", "addrX"} |-> IF a = "addrA" THEN "renamed A" ELSE "exchange"]

\* The complete lists the detector can hold: the configured one, the replacement.
WatchLists == {ConfiguredLabels, ReplacementLabels}

\* updateWatchedAddresses: new Set(Object.keys(addresses)) and
\* new Map(Object.entries(addresses)), assigned in one synchronous call.
UpdatedSetKeepingOld(addresses) == watchedAddresses \cup DOMAIN addresses
UpdatedSet(addresses) == DOMAIN addresses

UpdatedNames(addresses) == addresses

\* this.addressNames.get(address)
LabelOf(names, address) == IF address \in DOMAIN names THEN names[address] ELSE "undefined"

Labelled(address, names, direction, amount) ==
    [address |-> address, name |-> LabelOf(names, address),
     direction |-> direction, amount |-> amount]

\* Transactions paying a watched address, with 1..MaxLookupInputs inputs that
\* all spend a watched address or do so alternately; the node supplies
\* `input.addresses` for all of them or for none.  A coinbase transaction.
\* And transactions paying an address that is not on the configured list,
\* with 1..MaxUnmatchedInputs inputs spending a watched address.
LookupInput(i, pattern, supplied) ==
    [prevAddresses |-> IF pattern = "all" \/ i % 2 = 1 THEN <<"addrA">> ELSE <<"addrX">>,
     prevValue |-> 2, supplied |-> supplied, coinbase |-> FALSE]

LookupTxSpace ==
    { [vin |-> [i \in 1..n |-> LookupInput(i, pattern, supplied)],
       vout |-> <<[addresses |-> <<"addrA">>, value |-> 1]>>] :
         n \in 1..MaxLookupInputs, pattern \in {"all", "alternate"}, supplied \in BOOLEAN }
    \cup { [vin |-> <<[prevAddresses |-> <<>>, prevValue |-> 0, supplied |-> FALSE,
                       coinbase |-> TRUE]>>,
            vout |-> <<[addresses |-> <<"addrA">>, value |-> 1]>>] }
    \cup { [vin |-> [i \in 1..n |-> LookupInput(i, "all", supplied)],
            vout |-> <<[addresses |-> <<"addrX">>, value |-> 1]>>] :
              n \in 1..MaxUnmatchedInputs, supplied \in BOOLEAN }

Pending == {"delay", "inflight", "backoff"}

\* chunkArray(inputs, MAX_CONCURRENT_REQUESTS): the inputs of the c-th chunk.
ChunkMembers(n, c) ==
    { i \in 1..n : (c - 1) * MaxConcurrentRequests < i /\ i <= c * MaxConcurrentRequests }

\* chunk.map(async (input) => ...): a coinbase input returns at once, every
\* other input begins with `await this.delay(50)`.
LaunchChunk(d, tx) ==
    [d EXCEPT !.status =
        [i \in 1..Len(tx.vin) |->
            IF i \in ChunkMembers(Len(tx.vin), d.chunk)
            THEN (IF tx.vin[i].coinbase THEN "skipped" ELSE "delay")
            ELSE d.status[i]]]

\* What follows a settled lookup without a further suspension: Promise.all of
\* the chunk resolves when its last member has settled, the for loop launches
\* the next chunk, and after the last one the detection returns.
RECURSIVE Advance(_, _)
Advance(d, tx) ==
    IF d.pc # "inputs" THEN d
    ELSE IF \E i \in 1..Len(d.status) : d.status[i] \in Pending THEN d
    ELSE IF d.path = "rpc" /\ d.chunk * MaxConcurrentRequests < Len(tx.vin)
         THEN Advance(LaunchChunk([d EXCEPT !.chunk = @ + 1], tx), tx)
         ELSE [d EXCEPT !.pc = "done"]

\* The catch around a lookup: the failure is logged, the input stays
\* unresolved, the detection goes on.
OnLookupFailureRejects(d, i) == [d EXCEPT !.pc = "raised"]
OnLookupFailure(d, i) == [d EXCEPT !.status[i] = "failed"]

\* const hasWatchedOutputs = addressInvolvements.length > 0
HasWatchedOutputsAlways(found) == TRUE
HasWatchedOutputs(found) == Len(found) > 0

\* detectAddressesInTransaction up to its first suspension: the outputs are
\* processed, and if one matched the input side begins, through
\* processInputsViaRPC when no input carries an address, else with one
\* amount lookup per watched input address, all begun at once.  Every input
\* of LookupTxSpace carries one address, so the k-th address is the k-th
\* input's.
BeginDetection ==
    /\ detection.pc = "idle"
    /\ LET extracted == ExtractAddressesFromTransaction(dTx)
           outs == ProcessOutputAddresses(watchedAddresses, extracted.outputs, dTx.vout, 1)
           found == [k \in 1..Len(outs.involvements) |->
                       Labelled(outs.involvements[k].address, addressNames, "output",
                                outs.involvements[k].amount)]
           begun == [detection EXCEPT !.pc = "inputs", !.involvements = found]
       IN  detection' =
             IF outs.raised THEN [detection EXCEPT !.pc = "raised"]
             ELSE IF ~HasWatchedOutputs(found) THEN [detection EXCEPT !.pc = "done"]
             ELSE IF Len(extracted.inputs) = 0
                  THEN Advance(LaunchChunk(
                          [begun EXCEPT !.path = "rpc", !.chunk = 1,
                                        !.status = [i \in 1..Len(dTx.vin) |-> "waiting"]],
                          dTx), dTx)
                  ELSE Advance(
                          [begun EXCEPT !.path = "supplied",
                                        !.status = [k \in 1..Len(extracted.inputs) |->
                                            IF IsWatched(watchedAddresses, extracted.inputs[k])
                                            THEN "inflight" ELSE "skipped"]],
                          dTx)
    /\ UNCHANGED <<watchedAddresses, addressNames, dTx, dRun>>
    /\ UNCHANGED rpcVars
    /\ UNCHANGED parseVars
    /\ UNCHANGED monitorVars
    /\ UNCHANGED notifyVars

\* The 50 ms pause of processInputsViaRPC is over: getRawTransaction is called.
DelayElapsed(i) ==
    /\ detection.pc = "inputs"
    /\ detection.status[i] = "delay"
    /\ detection' = [detection EXCEPT !.status[i] = "inflight"]
    /\ UNCHANGED <<watchedAddresses, addressNames, dTx, dRun>>
    /\ UNCHANGED rpcVars
    /\ UNCHANGED parseVars
    /\ UNCHANGED monitorVars
    /\ UNCHANGED notifyVars

\* getRawTransaction resolved with the prior transaction.
LookupResolves(i) ==
    /\ detection.pc = "inputs"
    /\ detection.status[i] = "inflight"
    /\ LET input == dTx.vin[i]
           pushed ==
              IF detection.path = "rpc"
              THEN SelectSeq([k \in 1..Len(input.prevAddresses) |->
                                 Labelled(input.prevAddresses[k], addressNames, "input",
                                          input.prevValue)],
                             LAMBDA inv : IsWatched(watchedAddresses, inv.address))
              ELSE <<Labelled(ExtractAddressesFromTransaction(dTx).inputs[i], addressNames,
                              "input", input.prevValue)>>
       IN  detection' = Advance([detection EXCEPT !.status[i] = "done",
                                                  !.involvements = @ \o pushed], dTx)
    /\ UNCHANGED <<watchedAddresses, addressNames, dTx, dRun>>
    /\ UNCHANGED rpcVars
    /\ UNCHANGED parseVars
    /\ UNCHANGED monitorVars
    /\ UNCHANGED notifyVars

\* What a failed lookup is: a rejected request, an error reported by the node,
\* or a rate-limit answer (an error whose message contains "429").
LookupFailures == {"transport", "node", "rateLimit"}

\* getRawTransaction rejected.  In processInputsViaRPC the catch logs, and
\* after a rate-limit answer pauses 1 s; in extractInputAmountFromTransactionPart
\* the catch returns 0 and the involvement is pushed with that amount.
LookupFails(i, failure) ==
    /\ detection.pc = "inputs"
    /\ detection.status[i] = "inflight"
    /\ detection' =
          IF detection.path = "rpc"
          THEN IF failure = "rateLimit"
               THEN [detection EXCEPT !.status[i] = "backoff"]
               ELSE Advance(OnLookupFailure(detection, i), dTx)
          ELSE Advance([OnLookupFailure(detection, i) EXCEPT !.involvements =
                           @ \o <<Labelled(ExtractAddressesFromTransaction(dTx).inputs[i],
                                           addressNames, "input", 0)>>], dTx)
    /\ UNCHANGED <<watchedAddresses, addressNames, dTx, dRun>>
    /\ UNCHANGED rpcVars
    /\ UNCHANGED parseVars
    /\ UNCHANGED monitorVars
    /\ UNCHANGED notifyVars

\* The 1 s pause after a rate-limit answer is over.
RateLimitWaitOver(i) ==
    /\ detection.pc = "inputs"
    /\ detection.status[i] = "backoff"
    /\ detection' = Advance(OnLookupFailure(detection, i), dTx)
    /\ UNCHANGED <<watchedAddresses, addressNames, dTx, dRun>>
    /\ UNCHANGED rpcVars
    /\ UNCHANGED parseVars
    /\ UNCHANGED monitorVars
    /\ UNCHANGED notifyVars

\* updateWatchedAddresses(addresses): both fields are replaced in one
\* synchronous call.  `swaps` counts the calls, `during` those made while the
\* detection was suspended on its lookups.
UpdateWatchedAddresses(addresses) ==
    /\ detection.swaps < MaxUpdates
    /\ watchedAddresses' = UpdatedSet(addresses)
    /\ addressNames' = UpdatedNames(addresses)
    /\ detection' = [detection EXCEPT !.swaps = @ + 1,
                                      !.during = IF detection.pc = "inputs" THEN @ + 1 ELSE @]
    /\ UNCHANGED <<dTx, dRun>>
    /\ UNCHANGED rpcVars
    /\ UNCHANGED parseVars
    /\ UNCHANGED monitorVars
    /\ UNCHANGED notifyVars

LookupInit ==
    /\ watchedAddresses = ConfiguredWatchList
    /\ addressNames = ConfiguredLabels
    /\ dTx \in LookupTxSpace
    /\ dRun = NoRun
    /\ detection = NoDetection
    /\ requestId = 0
    /\ calls = <<>>
    /\ ParseParked
    /\ MonitorParked
    /\ NotifyParked

LookupNext ==
    \/ BeginDetection
    \/ \E i \in 1..Len(detection.status) : DelayElapsed(i)
    \/ \E i \in 1..Len(detection.status) : LookupResolves(i)
    \/ \E i \in 1..Len(detection.status), failure \in LookupFailures : LookupFails(i, failure)
    \/ \E i \in 1..Len(detection.status) : RateLimitWaitOver(i)
    \/ UpdateWatchedAddresses(ReplacementLabels)

SpecLookup == LookupInit /\ [][LookupNext]_vars

StatusCount(st) == Cardinality({ i \in 1..Len(detection.status) : detection.status[i] = st })

InputInvolvements == SelectSeq(detection.involvements, LAMBDA inv : inv.direction = "input")

C13_LookupFailureIsNotFatal ==
    /\ detection.pc # "raised"
    /\ (detection.pc = "done" /\ detection.path # "none") =>
          LET zero == SelectSeq(InputInvolvements, LAMBDA inv : inv.amount = 0)
              resolved == SelectSeq(InputInvolvements, LAMBDA inv : inv.amount = 2)
          IN  /\ \A i \in 1..Len(detection.status) :
                    detection.status[i] \in {"done", "failed", "skipped"}
              /\ Len(InputInvolvements) = Len(zero) + Len(resolved)
              /\ detection.path = "supplied" =>
                    /\ Len(zero) = StatusCount("failed")
                    /\ Len(resolved) = StatusCount("done")
              /\ detection.path = "rpc" =>
                    /\ Len(zero) = 0
                    /\ Len(resolved) <= StatusCount("done")
                    /\ detection.swaps = 0 =>
                          Len(resolved) = Cardinality(
                              { i \in 1..Len(detection.status) :
                                  /\ detection.status[i] = "done"
                                  /\ dTx.vin[i].prevAddresses[1] \in ConfiguredWatchList })

\* A detection returned after two lookups failed and the lookups of later
\* inputs, one of them in the next chunk, succeeded and contributed.
C13_Witness ==
    /\ detection.pc = "done"
    /\ detection.path = "rpc"
    /\ detection.chunk = 2
    /\ detection.status[1] = "failed"
    /\ detection.status[2] = "failed"
    /\ detection.status[3] = "done"
    /\ detection.status[Len(detection.status)] = "done"
    /\ Len(InputInvolvements) >= 2

\* C14: at no instant of a detection are more than 5 prior-transaction
\* lookups in flight.
C14_AtMostFiveLookupsInFlight ==
    StatusCount("inflight") <= MaxConcurrentRequests

\* C15: the membership set and the label map always have the same keys and
\* together are one of the complete lists (the configured one or a
\* replacement); every involvement of a detection, also one in flight during
\* a replacement, carries an address that is a member of a complete list and
\* the label a complete list gives that address.
C15_WatchListSwappedWhole ==
    /\ DOMAIN addressNames = watchedAddresses
    /\ \E list \in WatchLists : addressNames = list /\ watchedAddresses = DOMAIN list
    /\ \A k \in 1..Len(detection.involvements) :
          LET inv == detection.involvements[k]
          IN  /\ \E list \in WatchLists : inv.address \in DOMAIN list
              /\ \E list \in WatchLists : inv.name = LabelOf(list, inv.address)

\* The watch-list was replaced while the detection was suspended on its
\* lookups, and a lookup that settled afterwards found an address the new
\* list watches and the old one does not.
C15_Witness ==
    /\ detection.during = 1
    /\ detection.pc = "done"
    /\ watchedAddresses = DOMAIN ReplacementLabels
    /\ \E k \in 1..Len(detection.involvements) :
          /\ detection.involvements[k].address = "addrX"
          /\ detection.involvements[k].name = "exchange"
    /\ \E k \in 1..Len(detection.involvements) :
          detection.involvements[k].name = "wallet A"

(***************************************************************************)
(* BlockParser: scripts, Base58Check, embedded payloads.                   *)
(*                                                                         *)
(* A hex string is the sequence of the bytes it spells (the node delivers  *)
(* well-formed hex), so a length of 2n characters is a length of n bytes.  *)
(* A text is the sequence of its characters.                               *)
(***************************************************************************)
\* String.prototype.startsWith / endsWith
StartsWithFirstCharacter(text, prefix) ==
    text # <<>> /\ prefix # <<>> /\ text[1] = prefix[1]
StartsWith(text, prefix) ==
    Len(text) >= Len(prefix) /\ SubSeq(text, 1, Len(prefix)) = prefix

EndsWith(text, suffix) ==
    Len(text) >= Len(suffix) /\ SubSeq(text, Len(text) - Len(suffix) + 1, Len(text)) = suffix

\* String.prototype.substring(from, to), clipped to the string; on a hex string
\* hex.substring(2 * from, 2 * to) is the bytes from+1 .. to.
Substring(bytes, from, to) ==
    SubSeq(bytes, from + 1, IF to < Len(bytes) THEN to ELSE Len(bytes))

Repeat(x, n) == [i \in 1..n |-> x]

RECURSIVE LeadingZeroCount(_)
LeadingZeroCount(buffer) ==
    IF buffer = <<>> \/ Head(buffer) # 0 THEN 0 ELSE 1 + LeadingZeroCount(Tail(buffer))

StripLeadingZeros(buffer) == SubSeq(buffer, LeadingZeroCount(buffer) + 1, Len(buffer))

\* const alphabet = '123456789ABCDEFGHJKLMNPQRSTUVWXYZabcdefghijkmnopqrstuvwxyz'
Alphabet ==
    << "1", "2", "3", "4", "5", "6", "7", "8", "9",
       "A", "B", "C", "D", "E", "F", "G", "H", "J", "K", "L", "M", "N", "P", "Q",
       "R", "S", "T", "U", "V", "W", "X", "Y", "Z",
       "a", "b", "c", "d", "e", "f", "g", "h", "i", "j", "k", "m", "n", "o", "p",
       "q", "r", "s", "t", "u", "v", "w", "x", "y", "z" >>

\* The BigInt `num` is kept as its big-endian bytes; num / 58n and num % 58n
\* by long division, byte by byte.
RECURSIVE DivMod58(_, _, _)
DivMod58(bytes, carry, quotient) ==
    IF bytes = <<>> THEN [quotient |-> StripLeadingZeros(quotient), remainder |-> carry]
    ELSE LET current == carry * 256 + Head(bytes)
         IN  DivMod58(Tail(bytes), current % 58, Append(quotient, current \div 58))

\* while (num > 0) { result = alphabet[num % 58n] + result; num = num / 58n }
RECURSIVE Base58Digits(_, _)
Base58Digits(num, result) ==
    IF num = <<>> THEN result
    ELSE LET step == DivMod58(num, 0, <<>>)
         IN  Base58Digits(step.quotient, <<Alphabet[step.remainder + 1]>> \o result)

\* for (const byte of buffer) { if (byte === 0) result = '1' + result; else break }
LeadingOnesDropped(buffer) == <<>>
LeadingOnes(buffer) == Repeat("1", LeadingZeroCount(buffer))

Base58Encode(buffer) ==
    LeadingOnes(buffer) \o Base58Digits(StripLeadingZeros(buffer), <<>>)

\* hash2.slice(0, 4) of the double SHA-256 of the data.  The digest comes
\* from the platform's crypto library; it is represented by a deterministic
\* function from the data to 4 bytes.
RECURSIVE Digest(_, _)
Digest(data, h) ==
    IF data = <<>> THEN h ELSE Digest(Tail(data), (h * 31 + Head(data) + 7) % 65521)

Checksum(data) ==
    LET h == Digest(data, 1)
    IN  << h % 256, (h \div 256) % 256, (h * 7 + 3) % 256, (h \div 5) % 256 >>

Base58CheckEncode(data) == Base58Encode(data \o Checksum(data))

\* The inverse of the encoding: each leading '1' is a zero byte, the other
\* digits are a big-endian base-58 integer.
DigitOf(character) == CHOOSE k \in 0..57 : Alphabet[k + 1] = character

RECURSIVE LeadingOneCount(_)
LeadingOneCount(text) ==
    IF text = <<>> \/ Head(text) # "1" THEN 0 ELSE 1 + LeadingOneCount(Tail(text))

\* bytes * 58 + digit, from the least significant byte.
RECURSIVE MulAdd58(_, _)
MulAdd58(bytes, carry) ==
    IF bytes = <<>>
    THEN (IF carry = 0 THEN <<>> ELSE <<carry>>)
    ELSE LET current == bytes[Len(bytes)] * 58 + carry
         IN  Append(MulAdd58(SubSeq(bytes, 1, Len(bytes) - 1), current \div 256),
                    current % 256)

RECURSIVE Base58Number(_, _)
Base58Number(text, bytes) ==
    IF text = <<>> THEN bytes
    ELSE Base58Number(Tail(text), MulAdd58(bytes, DigitOf(Head(text))))

Base58Decode(text) ==
    Repeat(0, LeadingOneCount(text))
       \o Base58Number(SubSeq(text, LeadingOneCount(text) + 1, Len(text)), <<>>)

\* data.length === 20
HashLength == 20

\* convertLegacyP2PKHToAddress / convertLegacyP2SHToAddress: Base58Check of
\* the version byte and the hash when the hash has 20 bytes, else the
\* fallback text `<prefix>_error_<first characters of the hash>`.
ConvertLegacyToAddress(version, fallback, hash) ==
    IF Len(hash) = HashLength
    THEN [encoding |-> "base58check", text |-> Base58CheckEncode(<<version>> \o hash)]
    ELSE [encoding |-> "error", text |-> fallback]

ConvertLegacyP2PKHToAddress(keyHash) == ConvertLegacyToAddress(111, "m_error_", keyHash)

ConvertLegacyP2SHToAddress(scriptHash) == ConvertLegacyToAddress(196, "2_error_", scriptHash)

\* convertSegWitV0ToAddress: bech32 of the version and the program when the
\* program has 20 or 32 bytes.  The bech32 text is the library's; the address
\* is represented by what is encoded.
ConvertSegWitV0ToAddress(hash) ==
    IF Len(hash) = 20 \/ Len(hash) = 32
    THEN [encoding |-> "bech32", hrp |-> "tb", version |-> 0, program |-> hash]
    ELSE [encoding |-> "error", text |-> "tb1q_error_"]

\* convertTaprootHashToAddress: bech32m, version 1, 32-byte program.
ConvertTaprootHashToAddress(pubkeyHash) ==
    IF Len(pubkeyHash) = 32
    THEN [encoding |-> "bech32m", hrp |-> "tb", version |-> 1, program |-> pubkeyHash]
    ELSE [encoding |-> "error", text |-> "tb1p_error_"]

\* extractAddressesFromOutput for an output that carries neither
\* scriptPubKey.addresses nor scriptPubKey.desc: the derivation from
\* scriptPubKey.type and scriptPubKey.hex.
ExtractAddressesFromOutput(scriptPubKey) ==
    LET type == scriptPubKey.type
        hex == scriptPubKey.hex
    IN  IF type = "witness_v1_taproot" /\ Len(hex) = 34
        THEN <<ConvertTaprootHashToAddress(Substring(hex, 2, Len(hex)))>>
        ELSE IF type = "witness_v0_keyhash" /\ Len(hex) = 22
        THEN <<ConvertSegWitV0ToAddress(Substring(hex, 2, Len(hex)))>>
        ELSE IF type = "witness_v0_scripthash" /\ Len(hex) = 34
        THEN <<ConvertSegWitV0ToAddress(Substring(hex, 2, Len(hex)))>>
        ELSE IF type = "pubkeyhash" /\ StartsWith(hex, <<118, 169, 20>>)
                                   /\ EndsWith(hex, <<136, 172>>)
        THEN <<ConvertLegacyP2PKHToAddress(Substring(hex, 3, 23))>>
        ELSE IF type = "scripthash" /\ StartsWith(hex, <<169, 20>>) /\ EndsWith(hex, <<135>>)
        THEN <<ConvertLegacyP2SHToAddress(Substring(hex, 2, 22))>>
        ELSE <<>>

\* Buffer.toString('utf8'): a byte below 0x80 is its character, a lead byte
\* 0xC2..0xDF with a continuation byte is a two-byte character, and a byte
\* that begins no valid sequence becomes U+FFFD.  (Bytes 0xE0..0xF4, the
\* leads of longer sequences, are not among the payload bytes below.)
IsTwoByteSequence(bytes) ==
    /\ bytes[1] >= 194 /\ bytes[1] <= 223 /\ Len(bytes) >= 2
    /\ bytes[2] >= 128 /\ bytes[2] <= 191

\* The character the first bytes decode to, and the number of bytes it takes.
Utf8First(bytes) ==
    IF bytes[1] < 128 THEN [character |-> bytes[1], width |-> 1]
    ELSE IF IsTwoByteSequence(bytes)
         THEN [character |-> (bytes[1] % 32) * 64 + (bytes[2] % 64), width |-> 2]
         ELSE [character |-> 65533, width |-> 1]

RECURSIVE Utf8Decode(_)
Utf8Decode(bytes) ==
    IF bytes = <<>> THEN <<>>
    ELSE <<Utf8First(bytes).character>>
         \o Utf8Decode(SubSeq(bytes, Utf8First(bytes).width + 1, Len(bytes)))

\* /^[\x20-\x7E\u00A0-\uFFFF]*$/
IsPrintableCharacter(c) == (c >= 32 /\ c <= 126) \/ (c >= 160 /\ c <= 65535)

\* decodeOpReturnData
DecodeOpReturnData(hexData) ==
    LET decoded == Utf8Decode(hexData)
        isPrintable == \A k \in 1..Len(decoded) : IsPrintableCharacter(decoded[k])
    IN  IF isPrintable /\ Len(decoded) > 0
        THEN [hex |-> hexData, decodingSuccess |-> TRUE, decoded |-> decoded]
        ELSE [hex |-> hexData, decodingSuccess |-> FALSE, decoded |-> <<>>]

\* extractOpReturnData on the script of a nulldata output: the marker 6a and
\* the length byte are dropped, and the payload is cut to the stated length
\* when the script is long enough.
ExtractOpReturnData(hex) ==
    IF ~StartsWith(hex, <<106>>) THEN [found |-> FALSE]
    ELSE LET length == IF Len(hex) >= 2 THEN hex[2] ELSE 0
             dataHex == IF Len(hex) >= 3 /\ length > 0 /\ Len(hex) >= 2 + length
                        THEN Substring(hex, 2, 2 + length)
                        ELSE Substring(hex, 2, Len(hex))
         IN  [found |-> TRUE, data |-> DecodeOpReturnData(dataHex)]

\* AddressDetector.determineAddressType
DetermineAddressType(address) ==
    IF StartsWith(address, <<"1">>) THEN "Legacy P2PKH"
    ELSE IF StartsWith(address, <<"3">>) THEN "Legacy P2SH"
    ELSE IF StartsWith(address, <<"b", "c", "1", "q">>) THEN "SegWit Bech32"
    ELSE IF StartsWith(address, <<"b", "c", "1", "p">>) THEN "Taproot P2TR"
    ELSE IF StartsWith(address, <<"t", "b", "1", "q">>) THEN "SegWit Bech32"
    ELSE IF StartsWith(address, <<"t", "b", "1", "p">>) THEN "Taproot P2TR"
    ELSE IF StartsWith(address, <<"m">>) \/ StartsWith(address, <<"n">>) THEN "Legacy P2PKH"
    ELSE IF StartsWith(address, <<"2">>) THEN "Legacy P2SH"
    ELSE "Unknown"

(***************************************************************************)
(* BlockParser.parseBlockTransactions: the positions of the block's        *)
(* transactions in the order the generator yields them                     *)
(***************************************************************************)
ParseBlockTransactionsBackwards(block) == [i \in 1..Len(block) |-> Len(block) + 1 - i]
ParseBlockTransactions(block) == [i \in 1..Len(block) |-> i]

\* extractOpReturnData(transaction): the outputs are scanned in order; a
\* nulldata output whose script begins with the marker ends the scan.
RECURSIVE ExtractOpReturnDataOfTransaction(_)
ExtractOpReturnDataOfTransaction(vout) ==
    IF vout = <<>> THEN [found |-> FALSE]
    ELSE IF Head(vout).type = "nulldata" /\ ExtractOpReturnData(Head(vout).hex).found
         THEN ExtractOpReturnData(Head(vout).hex)
         ELSE ExtractOpReturnDataOfTransaction(Tail(vout))

(***************************************************************************)
(* One application of a pure function to a bounded input                   *)
(***************************************************************************)
MaxTextLength == 4
MaxPayloadLength == 3

ScriptTypes ==
    {"pubkeyhash", "scripthash", "witness_v0_keyhash", "witness_v0_scripthash",
     "witness_v1_taproot", "nulldata", "nonstandard"}

\* Scripts: an opcode prefix, a payload of some length, an opcode suffix.
ScriptPrefixes ==
    { <<>>, <<118, 169, 20>>, <<169, 20>>, <<0, 20>>, <<0, 32>>, <<81, 32>> }

PayloadLengths == {0, 19, 20, 21, 31, 32, 33}

ScriptSuffixes == { <<>>, <<136, 172>>, <<135>>, <<0, 136, 172>> }

ScriptHexes ==
    { prefix \o Repeat(171, n) \o suffix :
        prefix \in ScriptPrefixes, n \in PayloadLengths, suffix \in ScriptSuffixes }

\* Version bytes and 20-byte hashes: z leading zero bytes, then two byte
\* values alternating.
VersionBytes == {0, 5, 111, 196}

HashSamples ==
    { [i \in 1..HashLength |-> IF i <= z THEN 0 ELSE IF i % 2 = 0 THEN even ELSE odd] :
        z \in 0..HashLength, even \in {1, 171, 255}, odd \in {1, 171, 255} }

\* Payload bytes: 'H', a line feed, and the bytes de, ad, be.
PayloadBytes == {72, 10, 222, 173, 190}

HelloWorld == <<72, 101, 108, 108, 111, 32, 119, 111, 114, 108, 100>>

\* nulldata scripts: 6a, a length byte (the payload's length, or one more
\* than the script holds), the payload; the bare marker; a script that does
\* not begin with the marker.
NullDataScripts ==
    { <<106, Len(payload) + extra>> \o payload :
        payload \in SeqsUpTo(PayloadBytes, MaxPayloadLength) \cup {HelloWorld},
        extra \in {0, 1} }
    \cup { <<106>>, <<81, 1, 72>> }

\* Blocks handed to the generator: up to MaxBlockLength transactions.
MaxBlockLength == 3
MaxRestarts == 1
TransactionIds == {"t1", "t2", "t3"}
StreamedBlocks == SeqsUpTo(TransactionIds, MaxBlockLength)

\* A generator on `block` that has yielded nothing yet.  `earlier` is an
\* observation: what the generator before this one had yielded, and whether it
\* had finished.
NewGenerator(block, restarts, earlier) ==
    [fn |-> "parseBlockTransactions", input |-> block, done |-> FALSE, output |-> <<>>,
     index |-> 0, restarts |-> restarts, earlier |-> earlier]

NoEarlierRun == [done |-> FALSE, output |-> <<>>]

\* Data pushes after the marker: a direct push (length byte 1..75), and
\* OP_PUSHDATA1 (4c, one length byte), the encoding of every payload above 75
\* bytes; the bare marker and OP_0 push nothing.
PushLengths == {1, 2, 75, 76, 80}

PushScripts ==
    { <<106>>, <<106, 0>> }
    \cup { <<106, n>> \o Repeat(171, n) : n \in { m \in PushLengths : m <= 75 } }
    \cup { <<106, 76, n>> \o Repeat(171, n) : n \in { m \in PushLengths : m > 75 } }
    \cup { <<106, 11>> \o HelloWorld }

\* Outputs of a transaction: null-data outputs, and a P2PKH output.
PayloadOutputs ==
    { [type |-> "nulldata", hex |-> script] : script \in PushScripts }
    \cup { [type |-> "pubkeyhash", hex |-> <<118, 169, 20>> \o Repeat(171, 20) \o <<136, 172>>] }

MaxPayloadOutputs == 2

AddressCharacters == {"1", "2", "3", "b", "c", "t", "q", "p", "m", "n", "x"}

AddressTexts == SeqsUpTo(AddressCharacters, MaxTextLength)

\* checkMemoryLimit(maxMemoryMB), given what process.memoryUsage().heapUsed
\* reads (bytes).  currentUsageMB = heapUsed / (1024 * 1024) is kept as the
\* fraction it is; currentUsageMB > maxMemoryMB compares the fraction with the
\* ceiling.  The warning written to the console is no state.
BytesPerMB == 1024 * 1024

Fraction(num, den) == [num |-> num, den |-> den]

GreaterThan(fraction, number) == fraction.num > number * fraction.den

IsOverLimitAtLimit(currentUsageMB, maxMemoryMB) ==
    currentUsageMB.num >= maxMemoryMB * currentUsageMB.den
IsOverLimit(currentUsageMB, maxMemoryMB) == GreaterThan(currentUsageMB, maxMemoryMB)

CheckMemoryLimit(maxMemoryMB, heapUsed) ==
    LET currentUsageMB == Fraction(heapUsed, BytesPerMB)
    IN  [isOverLimit |-> IsOverLimit(currentUsageMB, maxMemoryMB),
         usage |-> currentUsageMB]

\* Ceilings: negative, zero, positive.  Heap sizes: below, at and above a
\* whole number of megabytes.
MaxMemoryLimit == 2
MemoryLimits == (0 - 1)..MaxMemoryLimit
HeapSamples ==
    { m * BytesPerMB + delta : m \in 1..MaxMemoryLimit, delta \in {0 - 1, 0, 1} }

Applied(fn, input) == [fn |-> fn, input |-> input, done |-> FALSE, output |-> <<>>]

ParseInit ==
    /\ \/ \E type \in ScriptTypes, hex \in ScriptHexes :
             parse = Applied("extractAddressesFromOutput", [type |-> type, hex |-> hex])
       \/ \E version \in VersionBytes, hash \in HashSamples :
             parse = Applied("base58CheckEncode", <<version>> \o hash)
       \/ \E hex \in NullDataScripts : parse = Applied("extractOpReturnData", hex)
       \/ \E text \in AddressTexts : parse = Applied("determineAddressType", text)
       \/ \E maxMemoryMB \in MemoryLimits, heapUsed \in HeapSamples :
             parse = Applied("checkMemoryLimit",
                             [maxMemoryMB |-> maxMemoryMB, heapUsed |-> heapUsed])
       \/ \E block \in StreamedBlocks : parse = NewGenerator(block, 0, NoEarlierRun)
       \/ \E vout \in SeqsUpTo(PayloadOutputs, MaxPayloadOutputs) :
             parse = Applied("extractOpReturnDataOfTransaction", vout)
    /\ requestId = 0
    /\ calls = <<>>
    /\ DetectParked
    /\ MonitorParked
    /\ NotifyParked

ApplyExtractAddressesFromOutput ==
    /\ parse.fn = "extractAddressesFromOutput" /\ ~parse.done
    /\ parse' = [parse EXCEPT !.done = TRUE, !.output = ExtractAddressesFromOutput(parse.input)]
    /\ UNCHANGED rpcVars
    /\ UNCHANGED detectVars
    /\ UNCHANGED monitorVars
    /\ UNCHANGED notifyVars

ApplyBase58CheckEncode ==
    /\ parse.fn = "base58CheckEncode" /\ ~parse.done
    /\ parse' = [parse EXCEPT !.done = TRUE, !.output = Base58CheckEncode(parse.input)]
    /\ UNCHANGED rpcVars
    /\ UNCHANGED detectVars
    /\ UNCHANGED monitorVars
    /\ UNCHANGED notifyVars

ApplyExtractOpReturnData ==
    /\ parse.fn = "extractOpReturnData" /\ ~parse.done
    /\ parse' = [parse EXCEPT !.done = TRUE, !.output = ExtractOpReturnData(parse.input)]
    /\ UNCHANGED rpcVars
    /\ UNCHANGED detectVars
    /\ UNCHANGED monitorVars
    /\ UNCHANGED notifyVars

ApplyDetermineAddressType ==
    /\ parse.fn = "determineAddressType" /\ ~parse.done
    /\ parse' = [parse EXCEPT !.done = TRUE, !.output = DetermineAddressType(parse.input)]
    /\ UNCHANGED rpcVars
    /\ UNCHANGED detectVars
    /\ UNCHANGED monitorVars
    /\ UNCHANGED notifyVars

ApplyCheckMemoryLimit ==
    /\ parse.fn = "checkMemoryLimit" /\ ~parse.done
    /\ parse' = [parse EXCEPT !.done = TRUE,
                              !.output = CheckMemoryLimit(parse.input.maxMemoryMB,
                                                          parse.input.heapUsed)]
    /\ UNCHANGED rpcVars
    /\ UNCHANGED detectVars
    /\ UNCHANGED monitorVars
    /\ UNCHANGED notifyVars

ApplyExtractOpReturnDataOfTransaction ==
    /\ parse.fn = "extractOpReturnDataOfTransaction" /\ ~parse.done
    /\ parse' = [parse EXCEPT !.done = TRUE,
                              !.output = ExtractOpReturnDataOfTransaction(parse.input)]
    /\ UNCHANGED rpcVars
    /\ UNCHANGED detectVars
    /\ UNCHANGED monitorVars
    /\ UNCHANGED notifyVars

\* next() on the generator: the for...of loop yields the next transaction of
\* block.tx, or the generator returns.
GeneratorNext ==
    /\ parse.fn = "parseBlockTransactions" /\ ~parse.done
    /\ LET order == ParseBlockTransactions(parse.input)
       IN  IF parse.index < Len(order)
           THEN parse' = [parse EXCEPT !.index = @ + 1,
                                       !.output = Append(@, parse.input[order[parse.index + 1]])]
           ELSE parse' = [parse EXCEPT !.done = TRUE]
    /\ UNCHANGED rpcVars
    /\ UNCHANGED detectVars
    /\ UNCHANGED monitorVars
    /\ UNCHANGED notifyVars

\* parseBlockTransactions(block) is called again on the same block: a new
\* generator, whatever the state of the one before.
GeneratorRestart ==
    /\ parse.fn = "parseBlockTransactions"
    /\ parse.restarts < MaxRestarts
    /\ parse' = NewGenerator(parse.input, parse.restarts + 1,
                             [done |-> parse.done, output |-> parse.output])
    /\ UNCHANGED rpcVars
    /\ UNCHANGED detectVars
    /\ UNCHANGED monitorVars
    /\ UNCHANGED notifyVars

ParseNext ==
    \/ ApplyExtractAddressesFromOutput
    \/ ApplyBase58CheckEncode
    \/ ApplyExtractOpReturnData
    \/ ApplyDetermineAddressType
    \/ ApplyCheckMemoryLimit
    \/ ApplyExtractOpReturnDataOfTransaction
    \/ GeneratorNext
    \/ GeneratorRestart

SpecParse == ParseInit /\ [][ParseNext]_vars

Ran(fn) == parse.fn = fn /\ parse.done

C25_Result ==
    Ran("checkMemoryLimit") =>
        /\ parse.output.isOverLimit =
              (parse.input.heapUsed > parse.input.maxMemoryMB * 1048576)
        /\ parse.output.usage.num = parse.input.heapUsed
        /\ parse.output.usage.den = 1048576

\* C25: for every ceiling, negative and zero included, checkMemoryLimit returns
\* isOverLimit = (usage > ceiling) with the usage in megabytes, and the call
\* changes nothing of the watermark, the watch-list, the detector, the RPC
\* client or the monitor.
C25_MemoryCheckIsAPureQuery ==
    /\ []C25_Result
    /\ [][(parse.fn = "checkMemoryLimit" /\ parse' # parse) =>
            /\ parse'.fn = parse.fn /\ parse'.input = parse.input /\ parse'.done
            /\ UNCHANGED <<rpcVars, detectVars, notifyVars, monitorVars>>]_vars

\* The check has answered for a negative ceiling, and for a heap exactly at a
\* positive ceiling.
C25_Witness ==
    /\ Ran("checkMemoryLimit")
    /\ \/ parse.input.maxMemoryMB < 0 /\ parse.output.isOverLimit
       \/ /\ parse.input.maxMemoryMB > 0
          /\ parse.input.heapUsed = parse.input.maxMemoryMB * 1048576
          /\ ~parse.output.isOverLimit

\* C34: what a generator has yielded is always the beginning of the block, in
\* block order; it ends having yielded the whole block, each transaction at
\* its position and nothing else; a generator restarted on the same block ends
\* with the same sequence as the one before it; and a step of the generator
\* yields one transaction or ends it.
C34_Yielded ==
    parse.fn = "parseBlockTransactions" =>
        /\ Len(parse.output) <= Len(parse.input)
        /\ parse.output = SubSeq(parse.input, 1, Len(parse.output))
        /\ parse.done => parse.output = parse.input
        /\ (parse.done /\ parse.earlier.done) => parse.output = parse.earlier.output

C34_StreamYieldsTheBlockOnce ==
    /\ []C34_Yielded
    /\ [][(parse.fn = "parseBlockTransactions" /\ parse'.restarts = parse.restarts) =>
            /\ ~parse.done
            /\ IF Len(parse.output) < Len(parse.input)
               THEN /\ parse'.output = Append(parse.output, parse.input[Len(parse.output) + 1])
                    /\ ~parse'.done
               ELSE parse'.output = parse.output /\ parse'.done
            /\ parse'.input = parse.input]_vars

\* A block of three transactions has been streamed to its end twice.
C34_Witness ==
    /\ Ran("parseBlockTransactions")
    /\ parse.input = <<"t2", "t1", "t3">>
    /\ parse.restarts = 1
    /\ parse.earlier.done
    /\ parse.output = <<"t2", "t1", "t3">>

\* The bytes a null-data script pushes after the marker: none for the bare
\* marker and for OP_0, the next n bytes for a length byte n of 1..75, and for
\* OP_PUSHDATA1 (4c) the bytes after its one-byte length.
PushedPayload(script) ==
    IF Len(script) < 2 \/ script[2] = 0 THEN <<>>
    ELSE IF script[2] <= 75 THEN SubSeq(script, 3, 2 + script[2])
    ELSE IF script[2] = 76 THEN SubSeq(script, 4, 3 + script[3])
    ELSE <<>>

NullDataOutputs(vout) == SelectSeq(vout, LAMBDA output : output.type = "nulldata")

\* C35: the result is null when the transaction has no null-data output, and
\* otherwise its hex is exactly the payload pushed by the first null-data
\* output, whatever the payload's length and the encoding of its length.
C35_PayloadOfFirstNullDataOutput ==
    Ran("extractOpReturnDataOfTransaction") =>
        IF NullDataOutputs(parse.input) = <<>>
        THEN ~parse.output.found
        ELSE /\ parse.output.found
             /\ parse.output.data.hex = PushedPayload(NullDataOutputs(parse.input)[1].hex)

\* The exact script templates: P2PKH 76a914 <20 bytes> 88ac, P2SH a914
\* <20 bytes> 87, witness v0 0014 <20 bytes> or 0020 <32 bytes>, Taproot 5120
\* <32 bytes>.
MatchesTemplate(scriptPubKey) ==
    LET type == scriptPubKey.type
        hex == scriptPubKey.hex
    IN  \/ type = "pubkeyhash" /\ Len(hex) = 25 /\ SubSeq(hex, 1, 3) = <<118, 169, 20>>
                               /\ SubSeq(hex, 24, 25) = <<136, 172>>
        \/ type = "scripthash" /\ Len(hex) = 23 /\ SubSeq(hex, 1, 2) = <<169, 20>>
                               /\ hex[23] = 135
        \/ type = "witness_v0_keyhash" /\ Len(hex) = 22 /\ SubSeq(hex, 1, 2) = <<0, 20>>
        \/ type = "witness_v0_scripthash" /\ Len(hex) = 34 /\ SubSeq(hex, 1, 2) = <<0, 32>>
        \/ type = "witness_v1_taproot" /\ Len(hex) = 34 /\ SubSeq(hex, 1, 2) = <<81, 32>>

\* C16: the derivation yields an address exactly when the script matches its
\* type's template, and then an encoded address; for any other type or hex it
\* yields no address.
C16_AddressOnlyForExactTemplate ==
    Ran("extractAddressesFromOutput") =>
        IF MatchesTemplate(parse.input)
        THEN Len(parse.output) = 1 /\ parse.output[1].encoding # "error"
        ELSE parse.output = <<>>

\* C17: decoding the Base58Check text gives back the version byte, the
\* 20-byte hash and a 4-byte checksum that verifies, and the text begins with
\* exactly one '1' per leading zero byte.
C17_Base58CheckRoundTrips ==
    Ran("base58CheckEncode") =>
        LET decoded == Base58Decode(parse.output)
        IN  /\ Len(decoded) = 1 + HashLength + 4
            /\ decoded[1] = parse.input[1]
            /\ SubSeq(decoded, 2, 1 + HashLength) = SubSeq(parse.input, 2, 1 + HashLength)
            /\ SubSeq(decoded, 2 + HashLength, Len(decoded))
                  = Checksum(SubSeq(decoded, 1, 1 + HashLength))
            /\ LeadingOneCount(parse.output) = LeadingZeroCount(decoded)

\* Version byte 0 and a hash that begins with zero bytes: the text begins
\* with as many '1's, and more digits follow.
C17_Witness ==
    /\ Ran("base58CheckEncode")
    /\ parse.input[1] = 0 /\ parse.input[2] = 0 /\ parse.input[3] = 0
    /\ parse.input[HashLength + 1] # 0
    /\ LeadingOneCount(parse.output) >= 3
    /\ Len(parse.output) > LeadingOneCount(parse.output)

\* Every byte belongs to a valid UTF-8 sequence whose character is printable.
RECURSIVE EveryByteMapsToPrintable(_)
EveryByteMapsToPrintable(bytes) ==
    IF bytes = <<>> THEN TRUE
    ELSE LET b == Head(bytes)
         IN  IF b < 128
             THEN b >= 32 /\ b <= 126 /\ EveryByteMapsToPrintable(Tail(bytes))
             ELSE /\ b >= 194 /\ b <= 223
                  /\ Len(bytes) >= 2 /\ bytes[2] >= 128 /\ bytes[2] <= 191
                  /\ (b % 32) * 64 + (bytes[2] % 64) >= 160
                  /\ EveryByteMapsToPrintable(Tail(Tail(bytes)))

\* C18: the payload of a script that begins with the marker is returned with
\* its hex unchanged; decodingSuccess is true, with the decoded text, only if
\* every byte of the payload maps to a printable character, and otherwise no
\* text is returned.
C18_DecodesOnlyPrintablePayloads ==
    (Ran("extractOpReturnData") /\ StartsWith(parse.input, <<106>>)) =>
        /\ parse.output.found
        /\ parse.output.data.hex = SubSeq(parse.input, 3, Len(parse.input))
        /\ parse.output.data.decodingSuccess =>
              /\ EveryByteMapsToPrintable(parse.output.data.hex)
              /\ parse.output.data.decoded = Utf8Decode(parse.output.data.hex)
        /\ ~parse.output.data.decodingSuccess => parse.output.data.decoded = <<>>

\* The display type by prefix, testnet prefixes included.
AddressTypeByPrefix(address) ==
    LET first == Substring(address, 0, 1)
        four == Substring(address, 0, 4)
    IN  IF first \in { <<"1">>, <<"m">>, <<"n">> } THEN "Legacy P2PKH"
        ELSE IF first \in { <<"3">>, <<"2">> } THEN "Legacy P2SH"
        ELSE IF four \in { <<"b", "c", "1", "q">>, <<"t", "b", "1", "q">> } THEN "SegWit Bech32"
        ELSE IF four \in { <<"b", "c", "1", "p">>, <<"t", "b", "1", "p">> } THEN "Taproot P2TR"
        ELSE "Unknown"

\* C19 (amended): the type is Legacy P2PKH for a leading '1', 'm' or 'n',
\* Legacy P2SH for a leading '3' or '2', SegWit Bech32 for a leading 'bc1q' or
\* 'tb1q', Taproot P2TR for a leading 'bc1p' or 'tb1p', and Unknown for every
\* other text.
C19_AddressTypeByPrefix ==
    Ran("determineAddressType") => parse.output = AddressTypeByPrefix(parse.input)

\* A testnet SegWit prefix has been classified.
C19_Witness ==
    /\ Ran("determineAddressType")
    /\ parse.input = <<"t", "b", "1", "q">>
    /\ parse.output = "SegWit Bech32"

\* C19 as stated: Legacy P2PKH for a leading '1', Legacy P2SH for a leading
\* '3', SegWit Bech32 for a leading 'bc1q', Taproot P2TR for a leading 'bc1p',
\* Unknown for every other text.
C19_UnknownForEveryOtherText ==
    Ran("determineAddressType") =>
        parse.output =
            IF Substring(parse.input, 0, 1) = <<"1">> THEN "Legacy P2PKH"
            ELSE IF Substring(parse.input, 0, 1) = <<"3">> THEN "Legacy P2SH"
            ELSE IF Substring(parse.input, 0, 4) = <<"b", "c", "1", "q">> THEN "SegWit Bech32"
            ELSE IF Substring(parse.input, 0, 4) = <<"b", "c", "1", "p">> THEN "Taproot P2TR"
            ELSE "Unknown"

(***************************************************************************)
(* NotificationService: the cached BTC/USD price.                          *)
(*                                                                         *)
(* updateBTCPrice is called by the constructor (not awaited) and by        *)
(* updateBTCPriceIfNeeded inside sendTransactionNotification; each call    *)
(* awaits one GET of the price service.  The monitor awaits every          *)
(* sendTransactionNotification, so one notification is held at a time.     *)
(***************************************************************************)
\* private readonly PRICE_CACHE_MS = 60000
PriceCacheMs == 60000

MaxPrice == 2
MaxNotifications == 2
MaxAdvances == 2

Prices == 1..MaxPrice

\* Date.now() when the service is constructed: more than one cache period
\* after the epoch, so a cache never refreshed is stale.
ConstructedAt == PriceCacheMs + 1

\* The instants at which something happens: whole cache periods after the
\* construction, and one millisecond after each.
Instants ==
    { ConstructedAt + periods * PriceCacheMs + ms : periods \in 0..MaxAdvances, ms \in {0, 1} }

Callers == {"constructor", "notification"}

\* What makes a refresh fail: the request is rejected (network, timeout,
\* HTTP status), or the response carries no bitcoin.usd (or a zero one).
RefreshFailures == {"requestError", "noPrice"}

\* updateBTCPriceIfNeeded: cacheAge > PRICE_CACHE_MS || btcPriceUSD === 0
CacheIsStaleAtTtl == (now - lastPriceUpdate >= PriceCacheMs) \/ btcPriceUSD = 0
CacheIsStale == (now - lastPriceUpdate > PriceCacheMs) \/ btcPriceUSD = 0

\* enrichWithUSDAmounts: totalUSD is set only if btcPriceUSD > 0.
EnrichWithUSDAmounts(totalBTC, price) ==
    IF price > 0 THEN Defined(totalBTC * price) ELSE Undefined

\* logger.info('transaction_detected', ...); `refresh` is an observation: how
\* the refresh this notification waited for ended, or "none".
TransactionRecord(totalBTC, totalUSD, refresh) ==
    [total_btc |-> totalBTC, total_usd |-> totalUSD, refresh |-> refresh]

\* updateBTCPrice on a failure: the catch warns, a response without a price
\* skips the assignments; the cached price stays.
PriceClearedAfterFailure(price) == 0
PriceAfterFailure(price) == price

\* sendTransactionNotification up to its first suspension, or to its end when
\* no refresh is needed.
SendTransactionNotification(totalBTC) ==
    /\ ~pendingNotification.held
    /\ Len(logged) < MaxNotifications
    /\ IF usdPriceEnabled /\ CacheIsStale
       THEN /\ pendingNotification' = [held |-> TRUE, totalBTC |-> totalBTC]
            /\ fetching' = fetching \cup {"notification"}
            /\ UNCHANGED logged
       ELSE /\ logged' = Append(logged,
                    TransactionRecord(totalBTC,
                                      IF usdPriceEnabled
                                      THEN EnrichWithUSDAmounts(totalBTC, btcPriceUSD)
                                      ELSE Undefined,
                                      "none"))
            /\ UNCHANGED <<pendingNotification, fetching>>
    /\ UNCHANGED <<usdPriceEnabled, btcPriceUSD, lastPriceUpdate, now>>
    /\ UNCHANGED rpcVars
    /\ UNCHANGED detectVars
    /\ UNCHANGED parseVars
    /\ UNCHANGED monitorVars

\* What follows a settled GET for its caller: the constructor's call just
\* ends; the notification is enriched with the price now cached and written.
AfterRefresh(caller, price, refresh) ==
    /\ fetching' = fetching \ {caller}
    /\ IF caller = "notification"
       THEN /\ logged' = Append(logged,
                    TransactionRecord(pendingNotification.totalBTC,
                                      EnrichWithUSDAmounts(pendingNotification.totalBTC, price),
                                      refresh))
            /\ pendingNotification' = NoNotification
       ELSE UNCHANGED <<logged, pendingNotification>>

\* The GET resolved with a price: price and refresh time are assigned.
PriceArrives(caller, price) ==
    /\ caller \in fetching
    /\ btcPriceUSD' = price
    /\ lastPriceUpdate' = now
    /\ AfterRefresh(caller, price, "ok")
    /\ UNCHANGED <<usdPriceEnabled, now>>
    /\ UNCHANGED rpcVars
    /\ UNCHANGED detectVars
    /\ UNCHANGED parseVars
    /\ UNCHANGED monitorVars

\* The GET was rejected, or resolved without a price.
RefreshFails(caller, failure) ==
    /\ caller \in fetching
    /\ btcPriceUSD' = PriceAfterFailure(btcPriceUSD)
    /\ lastPriceUpdate' = lastPriceUpdate
    /\ AfterRefresh(caller, PriceAfterFailure(btcPriceUSD), "failed")
    /\ UNCHANGED <<usdPriceEnabled, now>>
    /\ UNCHANGED rpcVars
    /\ UNCHANGED detectVars
    /\ UNCHANGED parseVars
    /\ UNCHANGED monitorVars

\* Time passes.
ClockAdvances(instant) ==
    /\ instant > now
    /\ now' = instant
    /\ UNCHANGED <<usdPriceEnabled, btcPriceUSD, lastPriceUpdate, fetching,
                   pendingNotification, logged>>
    /\ UNCHANGED rpcVars
    /\ UNCHANGED detectVars
    /\ UNCHANGED parseVars
    /\ UNCHANGED monitorVars

\* new NotificationService(usdPriceEnabled): with the conversion enabled the
\* constructor starts a first refresh.
NotifyInit ==
    /\ usdPriceEnabled \in BOOLEAN
    /\ btcPriceUSD = 0
    /\ lastPriceUpdate = 0
    /\ now = ConstructedAt
    /\ fetching = IF usdPriceEnabled THEN {"constructor"} ELSE {}
    /\ pendingNotification = NoNotification
    /\ logged = <<>>
    /\ requestId = 0
    /\ calls = <<>>
    /\ DetectParked
    /\ ParseParked
    /\ MonitorParked

NotifyNext ==
    \/ \E totalBTC \in Values : SendTransactionNotification(totalBTC)
    \/ \E caller \in Callers, price \in Prices : PriceArrives(caller, price)
    \/ \E caller \in Callers, failure \in RefreshFailures : RefreshFails(caller, failure)
    \/ \E instant \in Instants : ClockAdvances(instant)

SpecNotify == NotifyInit /\ [][NotifyNext]_vars

\* C24: a step in which the refresh a notification waited for fails leaves the
\* cached price and its refresh time as they were and writes the notification,
\* with the USD total computed from the cached price when there is one and
\* without a USD total otherwise; and no step takes a cached price away.
C24_RefreshFailureKeepsTheCache ==
    [][/\ (Len(logged') = Len(logged) + 1 /\ logged'[Len(logged')].refresh = "failed") =>
            /\ pendingNotification.held
            /\ btcPriceUSD' = btcPriceUSD
            /\ lastPriceUpdate' = lastPriceUpdate
            /\ logged'[Len(logged')].total_btc = pendingNotification.totalBTC
            /\ logged'[Len(logged')].total_usd =
                  IF btcPriceUSD > 0
                  THEN Defined(pendingNotification.totalBTC * btcPriceUSD)
                  ELSE Undefined
            /\ ~pendingNotification'.held
       /\ btcPriceUSD > 0 => btcPriceUSD' > 0
       /\ lastPriceUpdate' # lastPriceUpdate => btcPriceUSD' > 0
    ]_vars

\* A notification was written with a USD total from a price cached more than
\* one cache period ago, after the refresh it waited for had failed.
C24_Witness ==
    /\ logged # <<>>
    /\ logged[Len(logged)].refresh = "failed"
    /\ logged[Len(logged)].total_usd = Defined(logged[Len(logged)].total_btc * btcPriceUSD)
    /\ btcPriceUSD > 0
    /\ now - lastPriceUpdate > PriceCacheMs

\* C36: with the conversion enabled, a notification that finds a positive
\* price cached at most 60 s ago issues no request and is written at once with
\* the USD total from that price; one that finds the cache older, or no price,
\* issues a request and waits for it; and no other step issues a request.
C36_RefreshOnlyWhenNeeded ==
    [][/\ (/\ usdPriceEnabled
           /\ ~pendingNotification.held
           /\ (pendingNotification'.held \/ Len(logged') = Len(logged) + 1)) =>
             IF btcPriceUSD > 0 /\ now - lastPriceUpdate <= 60000
             THEN /\ fetching' = fetching
                  /\ ~pendingNotification'.held
                  /\ Len(logged') = Len(logged) + 1
                  /\ logged'[Len(logged')].refresh = "none"
                  /\ logged'[Len(logged')].total_usd =
                        Defined(logged'[Len(logged')].total_btc * btcPriceUSD)
                  /\ btcPriceUSD' = btcPriceUSD
             ELSE /\ pendingNotification'.held
                  /\ "notification" \notin fetching
                  /\ fetching' = fetching \cup {"notification"}
                  /\ logged' = logged
       /\ fetching' \subseteq fetching \cup {"notification"}
       /\ ("notification" \in fetching' /\ "notification" \notin fetching) =>
             /\ usdPriceEnabled
             /\ ~pendingNotification.held
             /\ (btcPriceUSD = 0 \/ now - lastPriceUpdate > 60000)
    ]_vars

\* A notification was written without a refresh, from a price cached exactly
\* 60 s before.
C36_Witness ==
    /\ logged # <<>>
    /\ logged[Len(logged)].refresh = "none"
    /\ btcPriceUSD > 0
    /\ logged[Len(logged)].total_usd = Defined(logged[Len(logged)].total_btc * btcPriceUSD)
    /\ now - lastPriceUpdate = 60000
    /\ fetching = {}

(***************************************************************************)
(* The node: a chain of blocks                                             *)
(***************************************************************************)
MaxHeight == 2
MaxFailures == 2
MaxActive == 2

UnwatchedInput ==
    [prevAddresses |-> <<"addrX">>, prevValue |-> 2, supplied |-> FALSE, coinbase |-> FALSE]
WatchedInput ==
    [prevAddresses |-> <<"addrA">>, prevValue |-> 2, supplied |-> TRUE, coinbase |-> FALSE]

TxUnrelated == [vin |-> <<UnwatchedInput>>, vout |-> <<[addresses |-> <<"addrX">>, value |-> 2]>>]
TxIncoming == [vin |-> <<UnwatchedInput>>, vout |-> <<[addresses |-> <<"addrA">>, value |-> 1]>>]
TxBoth == [vin |-> <<WatchedInput>>, vout |-> <<[addresses |-> <<"addrA">>, value |-> 1]>>]
TxOutgoingOnly == [vin |-> <<WatchedInput>>, vout |-> <<[addresses |-> <<"addrX">>, value |-> 2]>>]
\* One output carrying two addresses, the second one watched: its amount is
\* looked up at an index past the end of vout.
TxTwoAddressOutput ==
    [vin |-> <<UnwatchedInput>>, vout |-> <<[addresses |-> <<"addrX", "addrB">>, value |-> 1]>>]

BlockCatalog ==
    { <<TxUnrelated>>,
      <<TxIncoming, TxBoth>>,
      <<TxOutgoingOnly>>,
      <<TxIncoming, TxBoth, TxTwoAddressOutput>> }

Heights == 1..MaxHeight

(***************************************************************************)
(* NotificationService: what reaches the sink                              *)
(***************************************************************************)
\* sendTransactionNotification; `pass` is an observation, the number of block
\* attempts begun so far, and tells the passes over one block apart.
TransactionEvent(height, position, result, pass) ==
    [kind |-> "transaction", blockHeight |-> height, tx |-> position,
     type |-> result.transactionType, addresses |-> result.addressInvolvements,
     totalBTC |-> CreateTransactionNotification(result).totalBTC,
     balanceDifference |-> CreateTransactionNotification(result).balanceDifference,
     pass |-> pass]

\* sendPerformanceMetrics
MetricsEvent(height, count, matched) ==
    [kind |-> "metrics", blockHeight |-> height, transaction_count |-> count,
     addresses_matched |-> matched]

\* sendSystemNotification
SystemEvent(level, message, height) ==
    [kind |-> "system", level |-> level, message |-> message, blockHeight |-> height]

(***************************************************************************)
(* BlockMonitor                                                            *)
(***************************************************************************)
\* start(): this.lastProcessedBlock = blockchainInfo.blocks
InitialWatermarkBelowTip(blocks) == blocks - 1
InitialWatermark(blocks) == blocks

\* pollForNewBlocks: for (let blockHeight = this.lastProcessedBlock + 1; ...)
FirstHeight(last) == last + 1

\* pollForNewBlocks: `this.lastProcessedBlock = blockHeight` follows the awaited
\* processBlock, so a throw leaves the watermark where it was.
WatermarkAdvancedOnFailure(last, height) == height
WatermarkOnFailure(last, height) == last

\* setTimeout is one-shot: a timer that has fired is not armed again by itself.
ArmedAfterFireAsInterval(running) == running
ArmedAfterFire(running) == FALSE

\* scheduleNextPoll after the try/catch around pollForNewBlocks: a new timer is
\* armed if the monitor is running, whatever the cycle's outcome.
ScheduleAfterCycleOnlyOnSuccess(running, failed) == running /\ ~failed
ScheduleAfterCycle(running, failed) == running

\* scheduleNextPoll: this.pollingTimer = setTimeout(...) overwrites the handle; a
\* timer still armed under the old handle stays armed and can no longer be
\* cleared by stop().
StraysAfterArming == IF timerPending THEN strayTimers + 1 ELSE strayTimers

RemoveAt(s, k) == SubSeq(s, 1, k - 1) \o SubSeq(s, k + 1, Len(s))

NewCycle ==
    [pc |-> "info", currentBlock |-> 0, blockHeight |-> 0, txIndex |-> 0,
     transactionCount |-> 0, addressesMatched |-> 0, first |-> 0, owed |-> 0]

\* start() up to `await this.rpcClient.ping()`.
Start ==
    /\ ~exited
    /\ startPc = "new"
    /\ ~isRunning
    /\ startPc' = "ping"
    /\ UNCHANGED <<isRunning, lastProcessedBlock, timerPending, stopped, active,
                   chainHeight, chain, sink, startHeight, requested, lastCycle,
                   retryHeight, failures>>
    /\ UNCHANGED rpcVars
    /\ UNCHANGED detectVars
    /\ UNCHANGED parseVars
    /\ UNCHANGED notifyVars
    /\ UNCHANGED <<exited, startCalls, strayTimers>>

\* start(): isRunning is not assigned before getBlockchainInfo() has resolved.
RunningAfterPingEager(running) == TRUE
RunningAfterPing(running) == running

\* ping() resolved: getBlockchainInfo() is awaited next.
StartPingOk ==
    /\ ~exited
    /\ startPc = "ping"
    /\ startPc' = "info"
    /\ isRunning' = RunningAfterPing(isRunning)
    /\ UNCHANGED <<lastProcessedBlock, timerPending, stopped, active,
                   chainHeight, chain, sink, startHeight, requested, lastCycle,
                   retryHeight, failures>>
    /\ UNCHANGED rpcVars
    /\ UNCHANGED detectVars
    /\ UNCHANGED parseVars
    /\ UNCHANGED notifyVars
    /\ UNCHANGED <<exited, startCalls, strayTimers>>

\* ping() or getBlockchainInfo() rejected: the catch reports and rethrows.
StartFails ==
    /\ ~exited
    /\ startPc \in {"ping", "info"}
    /\ failures < MaxFailures
    /\ failures' = failures + 1
    /\ startPc' = "failed"
    /\ sink' = Append(sink, SystemEvent("error", "Failed to start Bitcoin Transaction Scanner", 0))
    /\ UNCHANGED <<isRunning, lastProcessedBlock, timerPending, stopped, active,
                   chainHeight, chain, startHeight, requested, lastCycle, retryHeight>>
    /\ UNCHANGED rpcVars
    /\ UNCHANGED detectVars
    /\ UNCHANGED parseVars
    /\ UNCHANGED notifyVars
    /\ UNCHANGED <<exited, startCalls, strayTimers>>

\* getBlockchainInfo() resolved: watermark, start event, isRunning, first timer.
StartInfoOk ==
    /\ ~exited
    /\ startPc = "info"
    /\ startPc' = "done"
    /\ lastProcessedBlock' = InitialWatermark(chainHeight)
    /\ startHeight' = chainHeight
    /\ sink' = Append(sink, SystemEvent("info", "Bitcoin Transaction Scanner started",
                                        InitialWatermark(chainHeight)))
    /\ isRunning' = TRUE
    /\ timerPending' = TRUE
    /\ strayTimers' = StraysAfterArming
    /\ UNCHANGED <<stopped, active, chainHeight, chain, requested, lastCycle,
                   retryHeight, failures>>
    /\ UNCHANGED rpcVars
    /\ UNCHANGED detectVars
    /\ UNCHANGED parseVars
    /\ UNCHANGED notifyVars
    /\ UNCHANGED <<exited, startCalls>>

\* stop(): isRunning is cleared, a pending timer is cancelled, the final status
\* event carries the watermark.  Cycles in flight are left alone.
StopMonitor ==
    /\ stopped' = TRUE
    /\ isRunning' = FALSE
    /\ timerPending' = FALSE
    /\ sink' = Append(sink, SystemEvent("info", "Bitcoin Transaction Scanner stopped",
                                        lastProcessedBlock))
    /\ UNCHANGED <<lastProcessedBlock, startPc, active, chainHeight, chain,
                   startHeight, requested, lastCycle, retryHeight, failures>>
    /\ UNCHANGED strayTimers
    /\ UNCHANGED rpcVars
    /\ UNCHANGED detectVars
    /\ UNCHANGED parseVars
    /\ UNCHANGED notifyVars

\* stop(): called once, any time after start() was called.
Stop ==
    /\ ~exited
    /\ startPc \in {"ping", "info", "done"}
    /\ ~stopped
    /\ StopMonitor
    /\ UNCHANGED <<exited, startCalls>>

\* BitcoinTransactionScanner.shutdown, the SIGINT / SIGTERM handler:
\* `await this.monitor.stop(); process.exit(0)`.  Nothing stop() awaits leaves
\* the microtask queue, so no response of the node is handled in between.
Shutdown ==
    /\ ~exited
    /\ startPc \in {"ping", "info", "done"}
    /\ ~stopped
    /\ StopMonitor
    /\ exited' = TRUE
    /\ UNCHANGED startCalls

\* The poll timer fires: the callback calls pollForNewBlocks, which awaits
\* getBlockchainInfo().
TimerFires ==
    /\ ~exited
    /\ timerPending
    /\ Len(active) < MaxActive
    /\ timerPending' = ArmedAfterFire(isRunning)
    /\ active' = Append(active, NewCycle)
    /\ UNCHANGED <<isRunning, lastProcessedBlock, startPc, stopped, chainHeight,
                   chain, sink, startHeight, requested, lastCycle, retryHeight,
                   failures>>
    /\ UNCHANGED rpcVars
    /\ UNCHANGED detectVars
    /\ UNCHANGED parseVars
    /\ UNCHANGED notifyVars
    /\ UNCHANGED <<exited, startCalls, strayTimers>>

\* The cycle's callback returns: scheduleNextPoll().
EndCycle(k, failed) ==
    /\ active' = RemoveAt(active, k)
    /\ timerPending' = IF ScheduleAfterCycle(isRunning, failed) THEN TRUE ELSE timerPending
    /\ strayTimers' = IF ScheduleAfterCycle(isRunning, failed)
                      THEN StraysAfterArming ELSE strayTimers

\* processBlock(blockHeight) is entered: getBlockHash(blockHeight) is awaited.
BeginBlock(cycle, height) ==
    [cycle EXCEPT !.pc = "hash", !.blockHeight = height, !.txIndex = 0,
                  !.transactionCount = 0, !.addressesMatched = 0,
                  !.first = IF cycle.first = 0 THEN height ELSE cycle.first,
                  !.owed = IF cycle.first = 0 THEN retryHeight ELSE cycle.owed]

\* getBlockchainInfo() resolved inside pollForNewBlocks.
PollInfoOk(k) ==
    /\ ~exited
    /\ active[k].pc = "info"
    /\ IF chainHeight > lastProcessedBlock
       THEN /\ active' = [active EXCEPT ![k] =
                            BeginBlock([@ EXCEPT !.currentBlock = chainHeight],
                                       FirstHeight(lastProcessedBlock))]
            /\ requested' = Append(requested, FirstHeight(lastProcessedBlock))
            /\ retryHeight' = 0
            /\ UNCHANGED <<timerPending, strayTimers, lastCycle>>
       ELSE /\ EndCycle(k, FALSE)
            /\ lastCycle' = [ended |-> TRUE, failedAt |-> 0,
                             endWatermark |-> lastProcessedBlock]
            /\ UNCHANGED <<requested, retryHeight>>
    /\ UNCHANGED <<isRunning, lastProcessedBlock, startPc, stopped, chainHeight,
                   chain, sink, startHeight, failures>>
    /\ UNCHANGED rpcVars
    /\ UNCHANGED detectVars
    /\ UNCHANGED parseVars
    /\ UNCHANGED notifyVars
    /\ UNCHANGED <<exited, startCalls>>

\* getBlockchainInfo() rejected inside pollForNewBlocks: rethrown, reported by
\* the timer callback, next timer scheduled.
PollInfoFails(k) ==
    /\ ~exited
    /\ active[k].pc = "info"
    /\ failures < MaxFailures
    /\ failures' = failures + 1
    /\ sink' = Append(sink, SystemEvent("error", "Block polling error", 0))
    /\ EndCycle(k, TRUE)
    /\ lastCycle' = [ended |-> TRUE, failedAt |-> 0, endWatermark |-> lastProcessedBlock]
    /\ UNCHANGED <<isRunning, lastProcessedBlock, startPc, stopped, chainHeight,
                   chain, startHeight, requested, retryHeight>>
    /\ UNCHANGED rpcVars
    /\ UNCHANGED detectVars
    /\ UNCHANGED parseVars
    /\ UNCHANGED notifyVars
    /\ UNCHANGED <<exited, startCalls>>

\* What a throw of processBlock at `height` hands to the notification service:
\* the report of processBlock's catch, then the report of the timer callback's.
FailureReportsSwallowed(height) == <<>>
FailureReports(height) ==
    <<SystemEvent("error", "Failed to process block", height),
      SystemEvent("error", "Block polling error", height)>>

\* processBlock threw at `height`: its catch reports and rethrows,
\* pollForNewBlocks rethrows, the timer callback reports and schedules.
BlockFails(k) ==
    LET height == active[k].blockHeight
        mark == WatermarkOnFailure(lastProcessedBlock, height)
    IN  /\ ~exited
        /\ failures < MaxFailures
        /\ failures' = failures + 1
        /\ lastProcessedBlock' = mark
        /\ sink' = sink \o FailureReports(height)
        /\ EndCycle(k, TRUE)
        /\ lastCycle' = [ended |-> TRUE, failedAt |-> height, endWatermark |-> mark]
        /\ retryHeight' = height
        /\ UNCHANGED <<isRunning, startPc, stopped, chainHeight, chain, startHeight,
                       requested>>
        /\ UNCHANGED rpcVars
        /\ UNCHANGED detectVars
        /\ UNCHANGED parseVars
        /\ UNCHANGED notifyVars
        /\ UNCHANGED <<exited, startCalls>>

\* getBlockHash() resolved: getBlock(hash) is awaited.
GetBlockHashOk(k) ==
    /\ ~exited
    /\ active[k].pc = "hash"
    /\ active' = [active EXCEPT ![k].pc = "block"]
    /\ UNCHANGED <<isRunning, lastProcessedBlock, timerPending, startPc, stopped,
                   chainHeight, chain, sink, startHeight, requested, lastCycle,
                   retryHeight, failures>>
    /\ UNCHANGED rpcVars
    /\ UNCHANGED detectVars
    /\ UNCHANGED parseVars
    /\ UNCHANGED notifyVars
    /\ UNCHANGED <<exited, startCalls, strayTimers>>

\* getBlockHash() or getBlock() rejected.
FetchFails(k) ==
    /\ active[k].pc \in {"hash", "block"}
    /\ BlockFails(k)

\* getBlock() resolved: the transactions are streamed next.
GetBlockOk(k) ==
    /\ ~exited
    /\ active[k].pc = "block"
    /\ active' = [active EXCEPT ![k].pc = "tx"]
    /\ UNCHANGED <<isRunning, lastProcessedBlock, timerPending, startPc, stopped,
                   chainHeight, chain, sink, startHeight, requested, lastCycle,
                   retryHeight, failures>>
    /\ UNCHANGED rpcVars
    /\ UNCHANGED detectVars
    /\ UNCHANGED parseVars
    /\ UNCHANGED notifyVars
    /\ UNCHANGED <<exited, startCalls, strayTimers>>

\* processBlock: `if (detectionResult.hasWatchedAddress)` guards the counting
\* of the match and the hand-off of the notification.
HandsOffAlways(detectionResult) == TRUE
HandsOff(detectionResult) == detectionResult.hasWatchedAddress

\* One iteration of the for-await loop of processBlock.  The monitor builds its
\* detector without an RPC client.
ProcessTransaction(k) ==
    LET cycle == active[k]
        block == chain[cycle.blockHeight]
        order == ParseBlockTransactions(block)
    IN  /\ ~exited
        /\ cycle.pc = "tx"
        /\ cycle.txIndex < Len(order)
        /\ \E position \in {order[cycle.txIndex + 1]} :
           \E result \in {DetectAddressesInTransaction(watchedAddresses, FALSE, {},
                                                       block[position])} :
               IF result.raised
               THEN BlockFails(k)
               ELSE /\ active' = [active EXCEPT ![k] =
                          [@ EXCEPT !.txIndex = @ + 1,
                                    !.transactionCount = @ + 1,
                                    !.addressesMatched =
                                        IF HandsOff(result) THEN @ + 1 ELSE @]]
                    /\ sink' = IF HandsOff(result)
                               THEN Append(sink, TransactionEvent(cycle.blockHeight, position,
                                                                  result, Len(requested)))
                               ELSE sink
                    /\ UNCHANGED <<isRunning, lastProcessedBlock, timerPending, startPc,
                                   stopped, chainHeight, chain, startHeight, requested,
                                   lastCycle, retryHeight, failures>>
                    /\ UNCHANGED rpcVars
                    /\ UNCHANGED detectVars
                    /\ UNCHANGED parseVars
                    /\ UNCHANGED notifyVars
                    /\ UNCHANGED <<exited, startCalls, strayTimers>>

\* processBlock after the for-await loop: sendPerformanceMetrics, once.
BlockMetricsOnlyWhenMatched(height, count, matched) ==
    IF matched > 0 THEN <<MetricsEvent(height, count, matched)>> ELSE <<>>
BlockMetrics(height, count, matched) == <<MetricsEvent(height, count, matched)>>

\* pollForNewBlocks: this.lastProcessedBlock = blockHeight
WatermarkAfterBlockSkipping(blockHeight) == blockHeight + 1
WatermarkAfterBlock(blockHeight) == blockHeight

\* pollForNewBlocks after checkMemoryLimit: the over-limit branch reports and
\* hints reclamation (global.gc); it neither throws nor leaves the for loop.
MemoryPressureEndsCycle(overLimit) == overLimit
MemoryPressureAborts(overLimit) == FALSE

\* The stream is exhausted: metrics are handed off, processBlock returns, the
\* watermark advances, memory is checked, and the for loop of pollForNewBlocks
\* goes on to the next height or ends the cycle.
FinishBlock(k, overLimit) ==
    LET cycle == active[k]
        block == chain[cycle.blockHeight]
        events == BlockMetrics(cycle.blockHeight, cycle.transactionCount,
                               cycle.addressesMatched)
                  \o IF overLimit
                     THEN <<SystemEvent("error", "Memory limit exceeded", cycle.blockHeight)>>
                     ELSE <<>>
    IN  /\ ~exited
        /\ cycle.pc = "tx"
        /\ cycle.txIndex = Len(ParseBlockTransactions(block))
        /\ sink' = sink \o events
        /\ lastProcessedBlock' = WatermarkAfterBlock(cycle.blockHeight)
        /\ IF ~MemoryPressureAborts(overLimit) /\ cycle.blockHeight + 1 <= cycle.currentBlock
           THEN /\ active' = [active EXCEPT ![k] = BeginBlock(cycle, cycle.blockHeight + 1)]
                /\ requested' = Append(requested, cycle.blockHeight + 1)
                /\ UNCHANGED <<timerPending, strayTimers, lastCycle>>
           ELSE /\ EndCycle(k, FALSE)
                /\ lastCycle' = [ended |-> TRUE, failedAt |-> 0,
                                 endWatermark |-> cycle.blockHeight]
                /\ UNCHANGED requested
        /\ UNCHANGED <<isRunning, startPc, stopped, chainHeight, chain, startHeight,
                       retryHeight, failures>>
        /\ UNCHANGED rpcVars
        /\ UNCHANGED detectVars
        /\ UNCHANGED parseVars
        /\ UNCHANGED notifyVars
        /\ UNCHANGED <<exited, startCalls>>

\* The node's chain grows by one block.
NodeMinesBlock ==
    /\ chainHeight < MaxHeight
    /\ chainHeight' = chainHeight + 1
    /\ UNCHANGED <<isRunning, lastProcessedBlock, timerPending, startPc, stopped,
                   active, chain, sink, startHeight, requested, lastCycle,
                   retryHeight, failures>>
    /\ UNCHANGED rpcVars
    /\ UNCHANGED detectVars
    /\ UNCHANGED parseVars
    /\ UNCHANGED notifyVars
    /\ UNCHANGED <<exited, startCalls, strayTimers>>

\* The node falls back by one block (a reorganisation under way, or a node
\* behind its peers answering): getBlockchainInfo reports a lower height.  The
\* blocks themselves stay available by height.
NodeDropsBlock ==
    /\ chainHeight > 0
    /\ chainHeight' = chainHeight - 1
    /\ UNCHANGED <<isRunning, lastProcessedBlock, timerPending, startPc, stopped,
                   active, chain, sink, startHeight, requested, lastCycle,
                   retryHeight, failures>>
    /\ UNCHANGED rpcVars
    /\ UNCHANGED detectVars
    /\ UNCHANGED parseVars
    /\ UNCHANGED notifyVars
    /\ UNCHANGED <<exited, startCalls, strayTimers>>

Init ==
    /\ isRunning = FALSE
    /\ lastProcessedBlock = 0
    /\ timerPending = FALSE
    /\ startPc = "new"
    /\ stopped = FALSE
    /\ exited = FALSE
    /\ startCalls = <<>>
    /\ strayTimers = 0
    /\ active = <<>>
    /\ chainHeight \in 0..MaxHeight
    /\ chain \in [Heights -> BlockCatalog]
    /\ sink = <<>>
    /\ startHeight = 0
    /\ requested = <<>>
    /\ lastCycle = NoCycleYet
    /\ retryHeight = 0
    /\ failures = 0
    /\ watchedAddresses = ConfiguredWatchList
    /\ addressNames = ConfiguredLabels
    /\ dTx = NoTx
    /\ dRun = NoRun
    /\ detection = NoDetection
    /\ parse = NoParse
    /\ NotifyParked
    /\ requestId = 0
    /\ calls = <<>>

Next ==
    \/ Start
    \/ StartPingOk
    \/ StartFails
    \/ StartInfoOk
    \/ Stop
    \/ Shutdown
    \/ TimerFires
    \/ NodeMinesBlock
    \/ NodeDropsBlock
    \/ \E k \in 1..Len(active) : PollInfoOk(k)
    \/ \E k \in 1..Len(active) : PollInfoFails(k)
    \/ \E k \in 1..Len(active) : GetBlockHashOk(k)
    \/ \E k \in 1..Len(active) : FetchFails(k)
    \/ \E k \in 1..Len(active) : GetBlockOk(k)
    \/ \E k \in 1..Len(active) : ProcessTransaction(k)
    \/ \E k \in 1..Len(active), overLimit \in BOOLEAN : FinishBlock(k, overLimit)

Spec == Init /\ [][Next]_vars

(***************************************************************************)
(* Properties of the poll loop                                             *)
(***************************************************************************)
Last(s) == s[Len(s)]

TransactionEvents == SelectSeq(sink, LAMBDA e : e.kind = "transaction")

\* C1: a cycle in which block H failed ends with the watermark at H-1; the next
\* cycle that attempts a block attempts H first; attempted heights never skip a
\* height and the watermark is never ahead of the last attempted height.
C1_FailedBlockIsRetried ==
    /\ lastCycle.failedAt # 0 => lastCycle.endWatermark = lastCycle.failedAt - 1
    /\ \A k \in 1..Len(active) :
          (active[k].first # 0 /\ active[k].owed # 0) => active[k].first = active[k].owed
    /\ \A i \in 1..(Len(requested) - 1) :
          requested[i + 1] \in {requested[i], requested[i] + 1}
    /\ requested # <<>> =>
          lastProcessedBlock \in {Last(requested) - 1, Last(requested)}

\* A cycle is re-attempting the height at which the previous cycle failed.
C1_Witness ==
    \E k \in 1..Len(active) :
        /\ active[k].owed # 0
        /\ active[k].first = active[k].owed
        /\ lastCycle.failedAt = active[k].owed
        /\ lastProcessedBlock = active[k].owed - 1
        /\ Len(requested) >= 2

\* C2: once the watermark has reached H (above the startup height), every
\* transaction of block H that carries a watched address among its inputs or
\* outputs has been notified to the sink at least once.
C2_AtLeastOnceDelivery ==
    \A h \in Heights :
        (startPc = "done" /\ startHeight < h /\ h <= lastProcessedBlock) =>
            \A position \in 1..Len(chain[h]) :
                (\/ WatchedAmongOutputs(watchedAddresses, chain[h][position])
                 \/ WatchedAmongInputs(watchedAddresses, chain[h][position])) =>
                    \E i \in 1..Len(sink) :
                        /\ sink[i].kind = "transaction"
                        /\ sink[i].blockHeight = h
                        /\ sink[i].tx = position

\* C3: the transaction notifications in the sink are in chain order: by block
\* height, and within one block by position in the block.
C3_SinkInChainOrder ==
    \A i, j \in 1..Len(TransactionEvents) :
        i < j =>
            \/ TransactionEvents[i].blockHeight < TransactionEvents[j].blockHeight
            \/ /\ TransactionEvents[i].blockHeight = TransactionEvents[j].blockHeight
               /\ TransactionEvents[i].tx <= TransactionEvents[j].tx

\* C4: start() takes the chain height it read as the initial watermark; no
\* height at or below it is ever requested or reported on, and the first
\* height requested is that height + 1.
C4_OnlyBlocksAfterStartHeight ==
    startPc = "done" =>
        /\ requested = <<>> => lastProcessedBlock = startHeight
        /\ lastProcessedBlock >= startHeight
        /\ \A i \in 1..Len(requested) : requested[i] > startHeight
        /\ requested # <<>> => requested[1] = startHeight + 1
        /\ \A i \in 1..Len(sink) :
              sink[i].kind \in {"transaction", "metrics"} => sink[i].blockHeight > startHeight

\* The monitor started on a chain that already had blocks and has requested
\* the first block after the startup height.
C4_Witness ==
    /\ startPc = "done"
    /\ startHeight > 0
    /\ requested # <<>>
    /\ requested[1] = startHeight + 1
    /\ lastProcessedBlock > startHeight

\* C5: at most one poll cycle (hence one block) is in flight, no timer is armed
\* while a cycle runs, and height H+1 is requested only when the watermark has
\* reached H.
C5_OneBlockInFlight ==
    /\ Len(active) <= 1
    /\ timerPending => active = <<>>
    /\ requested # <<>> => lastProcessedBlock >= Last(requested) - 1

\* One cycle has finished a block and gone on to request the next height.
C5_Witness ==
    /\ Len(active) = 1
    /\ active[1].pc = "hash"
    /\ Len(requested) >= 2
    /\ Last(requested) = requested[Len(requested) - 1] + 1
    /\ active[1].first < active[1].blockHeight

\* C6: while the monitor is running the poll loop is alive: a timer is armed or
\* a cycle is in flight, also right after a cycle that failed.
C6_LoopSurvivesFailure ==
    isRunning => (timerPending \/ active # <<>>)

\* The monitor is running with a timer armed after a cycle that failed on a block.
C6_Witness ==
    /\ isRunning
    /\ timerPending
    /\ lastCycle.ended
    /\ lastCycle.failedAt # 0

\* The amounts a transaction moves to and from watched addresses: the values
\* of the outputs paying a watched address, the values of the prior outputs
\* its inputs spend from a watched address.
RECURSIVE WatchedOutputTotal(_, _)
WatchedOutputTotal(watched, vout) ==
    IF vout = <<>> THEN 0
    ELSE (IF \E j \in 1..Len(Head(vout).addresses) : Head(vout).addresses[j] \in watched
          THEN Head(vout).value ELSE 0)
         + WatchedOutputTotal(watched, Tail(vout))

RECURSIVE WatchedInputTotal(_, _)
WatchedInputTotal(watched, vin) ==
    IF vin = <<>> THEN 0
    ELSE (IF \E j \in 1..Len(Head(vin).prevAddresses) : Head(vin).prevAddresses[j] \in watched
          THEN Head(vin).prevValue ELSE 0)
         + WatchedInputTotal(watched, Tail(vin))

\* C11: a notification of type "both" carries balanceDifference = watched
\* output amounts - watched input amounts (an input's amount being the value
\* of the prior output it spends); a notification of any other type carries
\* no balanceDifference.
C11_BalanceDifference ==
    \A i \in 1..Len(sink) :
        sink[i].kind = "transaction" =>
            LET tx == chain[sink[i].blockHeight][sink[i].tx]
            IN  IF sink[i].type = "both"
                THEN sink[i].balanceDifference =
                        Defined(WatchedOutputTotal(watchedAddresses, tx.vout)
                                  - WatchedInputTotal(watchedAddresses, tx.vin))
                ELSE sink[i].balanceDifference = Undefined

\* C20: the monitor is running, has a timer armed or a cycle in flight only
\* after start() has probed the node and read the height, both with success,
\* and then it is running until stopped; when the probe or the height read
\* fails, start() fails with an error system event reported, the monitor not
\* running, no timer armed and no block ever requested.
C20_RunningOnlyAfterSuccessfulStart ==
    /\ (isRunning \/ timerPending \/ active # <<>>) => startPc = "done"
    /\ (startPc = "done" /\ ~stopped) => isRunning
    /\ startPc = "failed" =>
          /\ ~isRunning /\ ~timerPending /\ active = <<>> /\ requested = <<>>
          /\ \E i \in 1..Len(sink) :
                sink[i] = SystemEvent("error", "Failed to start Bitcoin Transaction Scanner", 0)
          /\ \A i \in 1..Len(sink) : sink[i].kind = "system"

\* start() has failed on a node that has blocks, and the failure was reported.
C20_Witness ==
    /\ startPc = "failed"
    /\ chainHeight > 0
    /\ ~stopped
    /\ sink = <<SystemEvent("error", "Failed to start Bitcoin Transaction Scanner", 0)>>

\* C21: once stop() has been called no timer is armed and no poll cycle begins.
C21_NoCycleBeginsAfterStop ==
    [][stopped => (~timerPending' /\ Len(active') <= Len(active))]_vars

\* C22: stopping never aborts a block: when the process has ended through the
\* shutdown, no cycle is left inside a block whose processing had begun.
C22_StopNeverAbortsABlock ==
    exited => \A k \in 1..Len(active) : active[k].pc \notin {"hash", "block", "tx"}

\* C23: once stop() has been called, the last event handed to the notification
\* service is its status event, carrying the last processed height.
C23_StoppedEventIsLast ==
    stopped =>
        /\ sink # <<>>
        /\ Last(sink) = SystemEvent("info", "Bitcoin Transaction Scanner stopped",
                                    lastProcessedBlock)

\* C30: the step in which a block fails at height H ends that cycle and no
\* other, requests no further height, hands the two error events about H to
\* the notification service before a next timer is armed, leaves the watermark
\* and the running flag alone and, if the monitor is running, arms the next
\* timer.
C30_FailureAbortsOnlyTheCycle ==
    [][(failures' # failures /\ lastCycle'.failedAt # 0 /\ lastCycle' # lastCycle
          /\ Len(requested) > 0) =>
          LET height == lastCycle'.failedAt
          IN  /\ Len(active') = Len(active) - 1
              /\ \E k \in 1..Len(active) :
                    /\ active[k].blockHeight = height
                    /\ active' = RemoveAt(active, k)
              /\ requested' = requested
              /\ Len(sink') = Len(sink) + 2
              /\ SubSeq(sink', 1, Len(sink)) = sink
              /\ sink'[Len(sink) + 1] = SystemEvent("error", "Failed to process block", height)
              /\ sink'[Len(sink) + 2] = SystemEvent("error", "Block polling error", height)
              /\ lastProcessedBlock' = lastProcessedBlock
              /\ isRunning' = isRunning /\ exited' = exited
              /\ isRunning => timerPending'
    ]_vars

\* A cycle has failed on a block below the tip: the later height was left for
\* the next cycle, whose timer is armed, and the failure is the last report.
C30_Witness ==
    /\ lastCycle.ended
    /\ lastCycle.failedAt # 0
    /\ chainHeight > lastCycle.failedAt
    /\ Last(requested) = lastCycle.failedAt
    /\ active = <<>>
    /\ timerPending
    /\ isRunning
    /\ Last(sink) = SystemEvent("error", "Block polling error", lastCycle.failedAt)

\* C31: a step that reports "Memory limit exceeded" for height H comes right
\* after the metrics of H, with the watermark already at H; it counts as no
\* failure, and the cycle goes on to request H+1 when the tip it read is
\* higher, and otherwise ends normally, the next timer armed if running.
C31_MemoryPressureIsSoft ==
    [][(sink' # sink /\ Last(sink').kind = "system"
          /\ Last(sink').message = "Memory limit exceeded") =>
          LET height == Last(sink').blockHeight
          IN  /\ Len(sink') = Len(sink) + 2
              /\ sink'[Len(sink) + 1].kind = "metrics"
              /\ sink'[Len(sink) + 1].blockHeight = height
              /\ lastProcessedBlock = height - 1
              /\ lastProcessedBlock' = height
              /\ failures' = failures
              /\ isRunning' = isRunning
              /\ \E k \in 1..Len(active) :
                    /\ active[k].blockHeight = height
                    /\ IF height < active[k].currentBlock
                       THEN /\ Len(active') = Len(active)
                            /\ active'[k].pc = "hash"
                            /\ active'[k].blockHeight = height + 1
                            /\ requested' = Append(requested, height + 1)
                       ELSE /\ active' = RemoveAt(active, k)
                            /\ requested' = requested
                            /\ lastCycle'.failedAt = 0
                            /\ isRunning => timerPending'
    ]_vars

\* Memory pressure was reported for a block below the tip the cycle had read,
\* and the same cycle is fetching the next height.
C31_Witness ==
    /\ Len(active) = 1
    /\ active[1].pc = "hash"
    /\ active[1].blockHeight = lastProcessedBlock + 1
    /\ active[1].first < active[1].blockHeight
    /\ Last(sink) = SystemEvent("error", "Memory limit exceeded", lastProcessedBlock)

\* The notifications handed off for transaction `position` of the block at
\* `height` in pass `pass`.
HandedOff(height, position, pass) ==
    { i \in 1..Len(sink) : /\ sink[i].kind = "transaction"
                           /\ sink[i].blockHeight = height
                           /\ sink[i].tx = position
                           /\ sink[i].pass = pass }

\* C32: every notification in the sink is for a transaction detect() reports
\* as a match, has a type other than 'none' and at least one involvement, and
\* is the only one for its transaction in its pass; and in the pass under way
\* every transaction already examined that detect() reports as a match has
\* its notification, and no other transaction has one.
C32_NotificationIffMatch ==
    /\ \A i \in 1..Len(sink) :
          sink[i].kind = "transaction" =>
             /\ sink[i].type # "none"
             /\ sink[i].addresses # <<>>
             /\ DetectAddressesInTransaction(ConfiguredWatchList, FALSE, {},
                   chain[sink[i].blockHeight][sink[i].tx]).hasWatchedAddress
             /\ HandedOff(sink[i].blockHeight, sink[i].tx, sink[i].pass) = {i}
    /\ \A k \in 1..Len(active) :
          active[k].pc = "tx" =>
             \A position \in 1..Len(chain[active[k].blockHeight]) :
                Cardinality(HandedOff(active[k].blockHeight, position, Len(requested)))
                   = IF /\ position <= active[k].txIndex
                        /\ DetectAddressesInTransaction(ConfiguredWatchList, FALSE, {},
                              chain[active[k].blockHeight][position]).hasWatchedAddress
                     THEN 1 ELSE 0

\* A block without a match was passed over in silence, and both transactions
\* of the next block have been notified in one pass.
C32_Witness ==
    /\ Len(active) = 1
    /\ active[1].pc = "tx"
    /\ active[1].blockHeight = 2
    /\ active[1].txIndex = 2
    /\ chain[1] = <<TxUnrelated>>
    /\ lastProcessedBlock = 1
    /\ Len(TransactionEvents) = 2

\* The metrics records handed off for the block at `height`.
MetricsOf(height) ==
    { i \in 1..Len(sink) : sink[i].kind = "metrics" /\ sink[i].blockHeight = height }

C33_OneRecordPerBlock ==
    \A height \in Heights :
       /\ Cardinality(MetricsOf(height))
             = IF startHeight < height /\ height <= lastProcessedBlock THEN 1 ELSE 0
       /\ \A i \in MetricsOf(height), j \in 1..Len(sink) :
             (sink[j].kind = "transaction" /\ sink[j].blockHeight = height) => j < i

\* C33: every block the watermark has passed has exactly one metrics record
\* and no other block has one; no notification of a block follows its record;
\* the record is handed off in the step that ends the pass, with the watermark
\* still below the block and advancing to it, and carries the number of
\* transactions of the block and the number of notifications of that pass.
C33_MetricsOncePerBlock ==
    /\ []C33_OneRecordPerBlock
    /\ [][\A i \in (Len(sink) + 1)..Len(sink') :
             sink'[i].kind = "metrics" =>
                LET height == sink'[i].blockHeight
                IN  /\ i = Len(sink) + 1
                    /\ SubSeq(sink', 1, Len(sink)) = sink
                    /\ lastProcessedBlock = height - 1
                    /\ lastProcessedBlock' = height
                    /\ sink'[i].transaction_count = Len(chain[height])
                    /\ sink'[i].addresses_matched =
                          Cardinality({ j \in 1..Len(sink) :
                                          /\ sink[j].kind = "transaction"
                                          /\ sink[j].blockHeight = height
                                          /\ sink[j].pass = Len(requested) })
       ]_vars

\* A block without a match and a block with two matches have each their
\* record, the second one after an earlier pass over it had failed.
C33_Witness ==
    /\ lastProcessedBlock = 2
    /\ chain[1] = <<TxUnrelated>>
    /\ chain[2] = <<TxIncoming, TxBoth>>
    /\ \E i \in 1..Len(sink) : sink[i] = MetricsEvent(1, 1, 0)
    /\ \E i \in 1..Len(sink) : sink[i] = MetricsEvent(2, 2, 2)
    /\ \E i \in 1..Len(sink) : sink[i] = SystemEvent("error", "Failed to process block", 2)

\* C39: the watermark never decreases; once start() has set it, it changes
\* only by +1, in a step that hands off the metrics of the block it advances
\* to; a poll that reads a chain height not above the watermark ends with the
\* watermark, the sink and the requested heights unchanged, and a poll begins
\* a block only if the height it read is above the watermark, with the height
\* right after the watermark.
C39_WatermarkMonotone ==
    [][/\ lastProcessedBlock' >= lastProcessedBlock
       /\ (startPc = "done" /\ lastProcessedBlock' # lastProcessedBlock) =>
             /\ lastProcessedBlock' = lastProcessedBlock + 1
             /\ Len(sink') > Len(sink)
             /\ sink'[Len(sink) + 1].kind = "metrics"
             /\ sink'[Len(sink) + 1].blockHeight = lastProcessedBlock'
       /\ \A k \in 1..Len(active) :
             (active[k].pc = "info" /\ active' # active /\ failures' = failures
                /\ Len(active') <= Len(active)
                /\ (Len(active') = Len(active) => active'[k] # active[k])) =>
                IF chainHeight <= lastProcessedBlock
                THEN /\ active' = RemoveAt(active, k)
                     /\ lastProcessedBlock' = lastProcessedBlock
                     /\ requested' = requested
                     /\ sink' = sink
                ELSE /\ active'[k].pc = "hash"
                     /\ active'[k].blockHeight = lastProcessedBlock + 1
                     /\ requested' = Append(requested, lastProcessedBlock + 1)
                     /\ lastProcessedBlock' = lastProcessedBlock
    ]_vars

\* The watermark has advanced twice, one block at a time, and a later poll is
\* reading a chain height below it.
C39_Witness ==
    /\ startPc = "done"
    /\ lastProcessedBlock = startHeight + 2
    /\ chainHeight < lastProcessedBlock
    /\ Len(active) = 1
    /\ active[1].pc = "info"
    /\ requested = <<startHeight + 1, startHeight + 2>>

(***************************************************************************)
(* Progress of a monitor that is started and left running, against a node  *)
(* that keeps answering: stop() is not called, the chain does not fall     *)
(* back, a request may fail (at most MaxFailures times in all) but a       *)
(* request that can succeed eventually does, and an armed timer fires.     *)
(***************************************************************************)
ProgressNext ==
    \/ Start
    \/ StartPingOk
    \/ StartFails
    \/ StartInfoOk
    \/ TimerFires
    \/ NodeMinesBlock
    \/ \E k \in 1..Len(active) : PollInfoOk(k)
    \/ \E k \in 1..Len(active) : PollInfoFails(k)
    \/ \E k \in 1..Len(active) : GetBlockHashOk(k)
    \/ \E k \in 1..Len(active) : FetchFails(k)
    \/ \E k \in 1..Len(active) : GetBlockOk(k)
    \/ \E k \in 1..Len(active) : ProcessTransaction(k)
    \/ \E k \in 1..Len(active), overLimit \in BOOLEAN : FinishBlock(k, overLimit)

\* What the event loop runs when the node has answered or the timer is due.
\* One start() and one poll loop: at most one of these is ready at a time.
MonitorStep ==
    \/ StartPingOk
    \/ StartInfoOk
    \/ TimerFires
    \/ \E k \in 1..Len(active) : PollInfoOk(k)
    \/ \E k \in 1..Len(active) : GetBlockHashOk(k)
    \/ \E k \in 1..Len(active) : GetBlockOk(k)
    \/ \E k \in 1..Len(active) : ProcessTransaction(k)
    \/ \E k \in 1..Len(active), overLimit \in BOOLEAN : FinishBlock(k, overLimit)

ProgressFairness == WF_vars(MonitorStep)

SpecProgress == Init /\ [][ProgressNext]_vars /\ ProgressFairness

MaxStartCalls == 2
MaxStopCalls == 1

\* A list updateWatchedAddresses may be called with that is shorter than the
\* configured one.
ShorterLabels == [a \in {"addrA"} |-> "only A"]

MonitorWatchLists == {ConfiguredLabels, ShorterLabels}

StopCalls ==
    Len(SelectSeq(sink, LAMBDA e : /\ e.kind = "system"
                                   /\ e.message = "Bitcoin Transaction Scanner stopped"))

\* start(): `if (this.isRunning) return`, then `await this.rpcClient.ping()`.
\* On a running monitor the call changes nothing.
CallStart ==
    /\ ~isRunning
    /\ Len(startCalls) < MaxStartCalls
    /\ startCalls' = Append(startCalls, "ping")
    /\ UNCHANGED <<isRunning, lastProcessedBlock, timerPending, startPc, stopped,
                   exited, strayTimers, active, chainHeight, chain, sink,
                   startHeight, requested, lastCycle, retryHeight, failures>>
    /\ UNCHANGED rpcVars
    /\ UNCHANGED detectVars
    /\ UNCHANGED parseVars
    /\ UNCHANGED notifyVars

\* ping() of call i resolved: getBlockchainInfo() is awaited next.
CallPingOk(i) ==
    /\ startCalls[i] = "ping"
    /\ startCalls' = [startCalls EXCEPT ![i] = "info"]
    /\ UNCHANGED <<isRunning, lastProcessedBlock, timerPending, startPc, stopped,
                   exited, strayTimers, active, chainHeight, chain, sink,
                   startHeight, requested, lastCycle, retryHeight, failures>>
    /\ UNCHANGED rpcVars
    /\ UNCHANGED detectVars
    /\ UNCHANGED parseVars
    /\ UNCHANGED notifyVars

\* getBlockchainInfo() of call i resolved: watermark, start event, isRunning,
\* scheduleNextPoll().  isRunning is not read again after the awaits.
CallInfoOk(i) ==
    /\ startCalls[i] = "info"
    /\ startCalls' = [startCalls EXCEPT ![i] = "done"]
    /\ lastProcessedBlock' = InitialWatermark(chainHeight)
    /\ startHeight' = chainHeight
    /\ sink' = Append(sink, SystemEvent("info", "Bitcoin Transaction Scanner started",
                                        InitialWatermark(chainHeight)))
    /\ isRunning' = TRUE
    /\ timerPending' = TRUE
    /\ strayTimers' = StraysAfterArming
    /\ UNCHANGED <<startPc, stopped, exited, active, chainHeight, chain, requested,
                   lastCycle, retryHeight, failures>>
    /\ UNCHANGED rpcVars
    /\ UNCHANGED detectVars
    /\ UNCHANGED parseVars
    /\ UNCHANGED notifyVars

\* ping() or getBlockchainInfo() of call i rejected: the catch reports and rethrows.
CallFails(i) ==
    /\ startCalls[i] \in {"ping", "info"}
    /\ failures < MaxFailures
    /\ failures' = failures + 1
    /\ startCalls' = [startCalls EXCEPT ![i] = "failed"]
    /\ sink' = Append(sink, SystemEvent("error", "Failed to start Bitcoin Transaction Scanner", 0))
    /\ UNCHANGED <<isRunning, lastProcessedBlock, timerPending, startPc, stopped,
                   exited, strayTimers, active, chainHeight, chain, startHeight,
                   requested, lastCycle, retryHeight>>
    /\ UNCHANGED rpcVars
    /\ UNCHANGED detectVars
    /\ UNCHANGED parseVars
    /\ UNCHANGED notifyVars

\* stop(), called at any time.
CallStop ==
    /\ StopCalls < MaxStopCalls
    /\ StopMonitor
    /\ UNCHANGED <<exited, startCalls>>

\* A timer armed under a handle that was overwritten fires: its callback calls
\* pollForNewBlocks like any other.
StrayTimerFires ==
    /\ strayTimers > 0
    /\ Len(active) < MaxActive
    /\ strayTimers' = strayTimers - 1
    /\ active' = Append(active, NewCycle)
    /\ UNCHANGED <<isRunning, lastProcessedBlock, timerPending, startPc, stopped,
                   exited, startCalls, chainHeight, chain, sink, startHeight,
                   requested, lastCycle, retryHeight, failures>>
    /\ UNCHANGED rpcVars
    /\ UNCHANGED detectVars
    /\ UNCHANGED parseVars
    /\ UNCHANGED notifyVars

\* updateWatchedAddresses(addresses): this.addressDetector.updateWatchedAddresses(addresses)
\* and nothing else; this.config is left as it was.
MonitorUpdateWatchedAddresses(addresses) ==
    /\ DOMAIN addresses # watchedAddresses
    /\ watchedAddresses' = UpdatedSet(addresses)
    /\ addressNames' = UpdatedNames(addresses)
    /\ UNCHANGED monitorVars
    /\ UNCHANGED rpcVars
    /\ UNCHANGED <<dTx, dRun, detection>>
    /\ UNCHANGED parseVars
    /\ UNCHANGED notifyVars

LifecycleInit ==
    /\ Init
    /\ chainHeight = 1
    /\ chain = [height \in Heights |-> IF height = 1 THEN <<TxUnrelated>>
                                                     ELSE <<TxIncoming, TxBoth>>]

LifecycleNext ==
    \/ CallStart
    \/ \E i \in 1..Len(startCalls) : CallPingOk(i)
    \/ \E i \in 1..Len(startCalls) : CallInfoOk(i)
    \/ \E i \in 1..Len(startCalls) : CallFails(i)
    \/ CallStop
    \/ TimerFires
    \/ StrayTimerFires
    \/ NodeMinesBlock
    \/ \E addresses \in MonitorWatchLists : MonitorUpdateWatchedAddresses(addresses)
    \/ \E k \in 1..Len(active) : PollInfoOk(k)
    \/ \E k \in 1..Len(active) : PollInfoFails(k)
    \/ \E k \in 1..Len(active) : GetBlockHashOk(k)
    \/ \E k \in 1..Len(active) : FetchFails(k)
    \/ \E k \in 1..Len(active) : GetBlockOk(k)
    \/ \E k \in 1..Len(active) : ProcessTransaction(k)
    \/ \E k \in 1..Len(active), overLimit \in BOOLEAN : FinishBlock(k, overLimit)

SpecLifecycle == LifecycleInit /\ [][LifecycleNext]_vars

\* The poll loops alive: a timer armed, under the handle held or under one
\* overwritten, or a cycle in flight, each of which arms the next timer.
PollLoops == (IF timerPending THEN 1 ELSE 0) + strayTimers + Len(active)

\* C37: whatever the calls of start() and stop() and however they interleave
\* with the node's answers, at most one poll loop is alive.
C37_AtMostOnePollLoop == PollLoops <= 1

\* getStatus()
GetStatus ==
    [isRunning |-> isRunning,
     lastProcessedBlock |-> lastProcessedBlock,
     watchedAddresses |-> Cardinality(ConfiguredWatchList)]

\* C40: getStatus() reports running exactly when a poll loop is alive, the
\* watermark as the last processed height, and the number of addresses the
\* detector holds as the watched count.
C40_StatusReportsActualState ==
    /\ GetStatus.isRunning <=> (PollLoops > 0)
    /\ GetStatus.lastProcessedBlock = lastProcessedBlock
    /\ GetStatus.watchedAddresses = Cardinality(watchedAddresses)

=============================================================================
